---- MODULE Spec2Model ----
(***************************************************************************)
(* Slot ledger / booking / revenue lifecycle of the venue-booking backend. *)
(*                                                                         *)
(* The three persisted collections are modelled as functions from ids to   *)
(* documents:                                                              *)
(*   slots     HallAlloted documents  (SlotRecord)                         *)
(*   bookings  Booking documents      (BookingRecord)                      *)
(*   revenues  OwnerRevenue documents (RevenueRecord)                      *)
(* Route handlers that read, await and then write (booking creation,       *)
(* allotment creation, the completion paths) are split at the await that   *)
(* separates the read from the write; the position of each request in      *)
(* flight is kept in `inflight`.  `last` is the response of the step that  *)
(* was taken last.                                                         *)
(*                                                                         *)
(* Units: wall-clock times "HH:MM" are pairs <<hh, mm>>; durations and     *)
(* totalHours are kept in minutes (1/60 hour); money is kept in hundredths *)
(* of the currency unit, so that 5 %, 10 %, 50 %, 80 % and 90 % of a whole *)
(* amount are integers.  A slot's cancellationDate is kept as the number   *)
(* of hours it lies before the slot's start (the handler's hoursDiff), in  *)
(* a sequence that is empty while the date is not set; a slot's feedback   *)
(* is kept as the sequence <<rating>>, empty while there is none.          *)
(***************************************************************************)
EXTENDS Integers, Sequences, FiniteSets, TLC

\* ------------------------------------------------------------------ bounds
MaxSlots == 2
MaxBookings == 2
MaxRevenues == 2
MaxInflight == 2
\* Calendar days are numbered; recurring publications end on day MaxDay at
\* the latest.
MaxDay == 8

\* ------------------------------------------------------------- environment
\* null for a document reference (ids start at 1) and for a user reference
NULL == 0
NoUser == "none"

Users == {"alice", "bob", "owner", "admin"}

Role(u) ==
  CASE u = "admin" -> "admin"
    [] u = "owner" -> "hall_owner"
    [] OTHER -> "user"

\* The venue catalog: one approved, available hall owned by "owner".
Halls == {"h1"}
\* Hall ids a request may carry; "h9" resolves to no hall.
HallIds == {"h1", "h9"}
HallOwner(h) == "owner"
pricePerHour == 500

Dates == {1}

T10 == <<10, 0>>
T11 == <<11, 0>>
T12 == <<12, 0>>
T13 == <<13, 0>>
T02 == <<2, 0>>
T22 == <<22, 0>>
T1320 == <<13, 20>>
\* [startTime, endTime] pairs a request may carry.
Intervals == {<<T10, T12>>, <<T11, T13>>}

\* [startTime, endTime] pairs over the whole day: ends after, at and before
\* the start.
ClockIntervals == {<<a, b>> : a \in {T02, T10, T22}, b \in {T02, T10, T22}}

\* [startTime, endTime] pairs of three hours, of twenty minutes and over
\* midnight.
PricedIntervals == {<<T10, T13>>, <<T13, T1320>>, <<T22, T02>>}

\* hoursDiff between the slot's start and `now`, as seen by a request.
HoursUntilStart == {10, 24, 30, 48, 50}

SlotStatus == {"confirmed", "cancelled", "completed", "no_show", "available"}
PaymentStatus == {"pending", "paid", "refunded", "partial", "not_applicable"}
BookingStatus == {"pending", "confirmed", "cancelled", "completed"}

\* ---------------------------------------------------------------- helpers
\* Mongo compares the "HH:MM" strings lexicographically.
StrLT(a, b) == a[1] < b[1] \/ (a[1] = b[1] /\ a[2] < b[2])

\* startHour * 60 + startMin
ParseMinutes(t) == t[1] * 60 + t[2]

Max(a, b) == IF a >= b THEN a ELSE b

\* Math.round of num/den for num >= 0, den > 0
RoundDiv(num, den) == (2 * num + den) \div (2 * den)

\* Percentage of an amount kept in hundredths.
Pct(amount, p) == (amount * p) \div 100

VARIABLES slots, bookings, revenues, nextSlot, nextBooking, nextRevenue,
          inflight, last

vars == <<slots, bookings, revenues, nextSlot, nextBooking, nextRevenue,
          inflight, last>>

Idle == [kind |-> "idle"]

\* The response of a step: the operation, its outcome and, on success, the id
\* of the document it created or changed.
Resp(op, result, id) == [op |-> op, result |-> result, id |-> id]

Init ==
  /\ slots = << >>
  /\ bookings = << >>
  /\ revenues = << >>
  /\ nextSlot = 1
  /\ nextBooking = 1
  /\ nextRevenue = 1
  /\ inflight = [r \in 1..MaxInflight |-> Idle]
  /\ last = Resp("init", "ok", NULL)

SlotIds == DOMAIN slots
BookingIds == DOMAIN bookings
RevenueIds == DOMAIN revenues

\* Insert document d under a fresh id / replace / remove.
Put(coll, id, d) == [i \in (DOMAIN coll) \cup {id} |-> IF i = id THEN d ELSE coll[i]]
Remove(coll, id) == [i \in (DOMAIN coll) \ {id} |-> coll[i]]

\* --------------------------------------------------------- slot publishing
\* calculateDuration: end - start on the same day, in minutes here.
calculateDuration(startTime, endTime) == ParseMinutes(endTime) - ParseMinutes(startTime)

\* The availability slot document built by the single-slot branch.
AvailabilitySlot(id, hall, date, startTime, endTime) ==
  [id |-> id, hall |-> hall, user |-> NoUser, booking |-> NULL,
   allotmentDate |-> date, startTime |-> startTime, endTime |-> endTime,
   duration |-> calculateDuration(startTime, endTime),
   totalAmount |-> 0, platformFee |-> 0, hallOwnerCommission |-> 0,
   status |-> "available", paymentStatus |-> "not_applicable",
   isAvailabilitySlot |-> TRUE,
   refundAmount |-> 0, cancellationDate |-> << >>, actualCheckIn |-> FALSE,
   feedback |-> << >>, isRecurring |-> FALSE]

\* A single-slot publication that is refused when a confirmed or completed
\* slot of the hall and date overlaps the interval.
PublishSlotChecksOverlap(actor, hall, date, iv) ==
  /\ IF hall \notin Halls
       THEN /\ last' = Resp("createSlot", "NotFound", NULL)
            /\ UNCHANGED <<slots, nextSlot>>
     ELSE IF \E s \in SlotIds : /\ slots[s].hall = hall
                                 /\ slots[s].allotmentDate = date
                                 /\ slots[s].status \in {"confirmed", "completed"}
                                 /\ StrLT(slots[s].startTime, iv[2])
                                 /\ StrLT(iv[1], slots[s].endTime)
       THEN /\ last' = Resp("createSlot", "Conflict", NULL)
            /\ UNCHANGED <<slots, nextSlot>>
       ELSE /\ nextSlot <= MaxSlots
            /\ slots' = Put(slots, nextSlot,
                            AvailabilitySlot(nextSlot, hall, date, iv[1], iv[2]))
            /\ nextSlot' = nextSlot + 1
            /\ last' = Resp("createSlot", "ok", nextSlot)
  /\ UNCHANGED <<bookings, revenues, nextBooking, nextRevenue, inflight>>

\* POST /api/hall-alloted with isAvailabilitySlot (single slot, not recurring)
PublishSlot(actor, hall, date, iv) ==
  /\ IF hall \notin Halls
       THEN /\ last' = Resp("createSlot", "NotFound", NULL)
            /\ UNCHANGED <<slots, nextSlot>>
       ELSE /\ nextSlot <= MaxSlots
            /\ slots' = Put(slots, nextSlot,
                            AvailabilitySlot(nextSlot, hall, date, iv[1], iv[2]))
            /\ nextSlot' = nextSlot + 1
            /\ last' = Resp("createSlot", "ok", nextSlot)
  /\ UNCHANGED <<bookings, revenues, nextBooking, nextRevenue, inflight>>

\* The weekday of a calendar day, numbered as in dayMap (0 is Sunday); day 0
\* is a Sunday.  (toLocaleDateString on a server whose time zone is UTC.)
Weekday(day) == day % 7

\* allotmentDate, recurringPattern.endDate and recurringDays a request to
\* publish recurring slots may carry.  An end date on day 0 is before every
\* start date.
RecurrenceStarts == {1, 2}
RecurrenceEnds == 0..MaxDay
RecurringDaySets == SUBSET {1, 3}

\* The availability slot document built by the recurring branch.
RecurringSlot(id, hall, date, startTime, endTime) ==
  [AvailabilitySlot(id, hall, date, startTime, endTime) EXCEPT !.isRecurring = TRUE]

\* A loop that stops before the end date.
RECURSIVE NextRecurringDateBeforeEnd(_, _, _)
NextRecurringDateBeforeEnd(currentDate, endDate, recurringDays) ==
  IF currentDate < endDate
    THEN IF Weekday(currentDate) \in recurringDays
           THEN <<currentDate>>
           ELSE NextRecurringDateBeforeEnd(currentDate + 1, endDate, recurringDays)
    ELSE << >>

\* while (currentDate <= endDate), run up to its next slot.save(): the date
\* of the next slot, in a sequence that is empty when the loop ends first.
RECURSIVE NextRecurringDate(_, _, _)
NextRecurringDate(currentDate, endDate, recurringDays) ==
  IF currentDate <= endDate
    THEN IF Weekday(currentDate) \in recurringDays
           THEN <<currentDate>>
           ELSE NextRecurringDate(currentDate + 1, endDate, recurringDays)
    ELSE << >>

\* POST /api/hall-alloted with isAvailabilitySlot and isRecurring, up to the
\* loop.  Without recurring days the single-slot branch is taken.
PublishRecurringStart(r, actor, hall, date, iv, endDate, recurringDays) ==
  /\ inflight[r] = Idle
  /\ IF hall \notin Halls
       THEN /\ last' = Resp("createSlot", "NotFound", NULL)
            /\ UNCHANGED <<slots, nextSlot, inflight>>
     ELSE IF recurringDays = {}
       THEN /\ nextSlot <= MaxSlots
            /\ slots' = Put(slots, nextSlot,
                            AvailabilitySlot(nextSlot, hall, date, iv[1], iv[2]))
            /\ nextSlot' = nextSlot + 1
            /\ last' = Resp("createSlot", "ok", nextSlot)
            /\ UNCHANGED inflight
       ELSE /\ inflight' = [inflight EXCEPT ![r] =
                 [kind |-> "publish", pc |-> "loop", hall |-> hall,
                  allotmentDate |-> date, startTime |-> iv[1], endTime |-> iv[2],
                  currentDate |-> date, endDate |-> endDate,
                  recurringDays |-> recurringDays, slots |-> << >>]]
            /\ last' = Resp("createSlot", "step", NULL)
            /\ UNCHANGED <<slots, nextSlot>>
  /\ UNCHANGED <<bookings, revenues, nextBooking, nextRevenue>>

\* The loop from one await to the next: it saves the slot of the next day
\* whose weekday is named, or ends and the request is answered with the
\* slots it has pushed.
PublishRecurringSave(r) ==
  /\ inflight[r] # Idle /\ inflight[r].kind = "publish" /\ inflight[r].pc = "loop"
  /\ LET q == inflight[r]
         found == NextRecurringDate(q.currentDate, q.endDate, q.recurringDays)
     IN IF found = << >>
          THEN /\ inflight' = [inflight EXCEPT ![r] = Idle]
               /\ last' = Resp("createSlot", "ok",
                                IF q.slots = << >> THEN NULL ELSE q.slots[1])
               /\ UNCHANGED <<slots, nextSlot>>
          ELSE /\ nextSlot <= MaxSlots
               /\ slots' = Put(slots, nextSlot,
                    RecurringSlot(nextSlot, q.hall, found[1], q.startTime, q.endTime))
               /\ nextSlot' = nextSlot + 1
               /\ inflight' = [inflight EXCEPT ![r].currentDate = found[1] + 1,
                                               ![r].slots = Append(q.slots, nextSlot)]
               /\ last' = Resp("createSlot", "step", NULL)
  /\ UNCHANGED <<bookings, revenues, nextBooking, nextRevenue>>

\* ------------------------------------------------------- booking creation
\* Defaults of the Booking schema for a document created without a status.
BookingDefaultStatus == "pending"
BookingDefaultPaymentStatus == "pending"

\* A conflict query that leaves the status filter out.
ConflictingBookingsAnyStatus(hall, date, startTime, endTime) ==
  {b \in BookingIds :
     /\ bookings[b].hall = hall
     /\ bookings[b].bookingDate = date
     /\ StrLT(bookings[b].startTime, endTime)
     /\ StrLT(startTime, bookings[b].endTime)}

\* The query of the conflict check: Booking documents of the hall and date
\* that are pending or confirmed and overlap [startTime, endTime).
ConflictingBookings(hall, date, startTime, endTime) ==
  {b \in BookingIds :
     /\ bookings[b].hall = hall
     /\ bookings[b].bookingDate = date
     /\ bookings[b].status \in {"pending", "confirmed"}
     /\ StrLT(bookings[b].startTime, endTime)
     /\ StrLT(startTime, bookings[b].endTime)}

\* totalHours of a booking, in minutes: an end at or before the start is
\* taken to be on the next day.
TotalHours(startTime, endTime) ==
  LET startMinutes == ParseMinutes(startTime)
      endMinutes == IF ParseMinutes(endTime) <= startMinutes
                      THEN ParseMinutes(endTime) + 24 * 60
                      ELSE ParseMinutes(endTime)
  IN Max(0, endMinutes - startMinutes)

\* An amount that is cut to whole currency units instead of rounded.
TotalAmountTruncated(totalHours) == 100 * Max(0, (totalHours * pricePerHour) \div 60)

\* Math.max(0, Math.round(totalHours * pricePerHour)), in hundredths.
TotalAmount(totalHours) == 100 * Max(0, RoundDiv(totalHours * pricePerHour, 60))

\* The availability slots the sync step may find for a booking.
MatchingSlots(hall, date, startTime, endTime) ==
  {s \in SlotIds :
     /\ slots[s].hall = hall
     /\ slots[s].allotmentDate = date
     /\ slots[s].startTime = startTime
     /\ slots[s].endTime = endTime
     /\ slots[s].isAvailabilitySlot = TRUE
     /\ slots[s].status = "available"}

\* A conversion that leaves the availability flag set.
ConvertSlotKeepsFlag(slot, user, bookingId, totalAmount) ==
  [slot EXCEPT !.status = "confirmed",
               !.user = user,
               !.booking = bookingId,
               !.totalAmount = totalAmount,
               !.platformFee = Pct(totalAmount, 5),
               !.hallOwnerCommission = Pct(totalAmount, 90),
               !.paymentStatus = "pending"]

\* The in-place conversion of a matching availability slot.
ConvertSlot(slot, user, bookingId, totalAmount) ==
  [slot EXCEPT !.status = "confirmed",
               !.user = user,
               !.booking = bookingId,
               !.totalAmount = totalAmount,
               !.platformFee = Pct(totalAmount, 5),
               !.hallOwnerCommission = Pct(totalAmount, 90),
               !.paymentStatus = "pending",
               !.isAvailabilitySlot = FALSE]

\* The Booking document of new Booking({...}).
BookingDoc(id, user, hall, date, startTime, endTime) ==
  [id |-> id, user |-> user, hall |-> hall,
   bookingDate |-> date, startTime |-> startTime, endTime |-> endTime,
   totalHours |-> TotalHours(startTime, endTime),
   totalAmount |-> TotalAmount(TotalHours(startTime, endTime)),
   status |-> BookingDefaultStatus,
   paymentStatus |-> BookingDefaultPaymentStatus]

\* Requests in flight.
Busy == {r \in 1..MaxInflight : inflight[r] # Idle}
Start(r, q) == inflight' = [inflight EXCEPT ![r] = q]
Finish(r) == inflight' = [inflight EXCEPT ![r] = Idle]
At(r, kind, pc) == inflight[r] # Idle /\ inflight[r].kind = kind /\ inflight[r].pc = pc

\* POST /api/bookings, up to and including the conflict check.
BookCheck(r, actor, hall, date, iv) ==
  /\ inflight[r] = Idle
  /\ UNCHANGED <<slots, bookings, revenues, nextSlot, nextBooking, nextRevenue>>
  /\ IF Role(actor) # "user"
       THEN /\ last' = Resp("createBooking", "Forbidden", NULL)
            /\ UNCHANGED inflight
     ELSE IF hall \notin Halls
       THEN /\ last' = Resp("createBooking", "NotFound", NULL)
            /\ UNCHANGED inflight
     ELSE IF ConflictingBookings(hall, date, iv[1], iv[2]) # {}
       THEN /\ last' = Resp("createBooking", "Conflict", NULL)
            /\ UNCHANGED inflight
       ELSE /\ Start(r, [kind |-> "book", pc |-> "write", user |-> actor,
                         hall |-> hall, date |-> date,
                         startTime |-> iv[1], endTime |-> iv[2], booking |-> NULL])
            /\ last' = Resp("createBooking", "step", NULL)

\* A booking write that repeats the conflict check at the time of the write.
BookWriteRechecked(r) ==
  /\ At(r, "book", "write")
  /\ LET q == inflight[r]
     IN IF ConflictingBookings(q.hall, q.date, q.startTime, q.endTime) # {}
          THEN /\ Finish(r)
               /\ last' = Resp("createBooking", "Conflict", NULL)
               /\ UNCHANGED <<bookings, nextBooking>>
          ELSE /\ nextBooking <= MaxBookings
               /\ bookings' = Put(bookings, nextBooking,
                    BookingDoc(nextBooking, q.user, q.hall, q.date, q.startTime, q.endTime))
               /\ nextBooking' = nextBooking + 1
               /\ inflight' = [inflight EXCEPT ![r].pc = "sync", ![r].booking = nextBooking]
               /\ last' = Resp("createBooking", "step", NULL)
  /\ UNCHANGED <<slots, revenues, nextSlot, nextRevenue>>

\* await booking.save()
BookWrite(r) ==
  /\ At(r, "book", "write")
  /\ nextBooking <= MaxBookings
  /\ LET q == inflight[r]
     IN bookings' = Put(bookings, nextBooking,
          BookingDoc(nextBooking, q.user, q.hall, q.date, q.startTime, q.endTime))
  /\ nextBooking' = nextBooking + 1
  /\ inflight' = [inflight EXCEPT ![r].pc = "sync", ![r].booking = nextBooking]
  /\ last' = Resp("createBooking", "step", NULL)
  /\ UNCHANGED <<slots, revenues, nextSlot, nextRevenue>>

\* HallAlloted.findOne(matching availability slot), its conversion, response 201.
BookSync(r) ==
  /\ At(r, "book", "sync")
  /\ LET q == inflight[r]
         found == MatchingSlots(q.hall, q.date, q.startTime, q.endTime)
     IN IF found = {}
          THEN UNCHANGED slots
          ELSE \E s \in found :
                 slots' = Put(slots, s,
                   ConvertSlot(slots[s], q.user, q.booking,
                               TotalAmount(TotalHours(q.startTime, q.endTime))))
  /\ Finish(r)
  /\ last' = Resp("createBooking", "ok", inflight[r].booking)
  /\ UNCHANGED <<bookings, revenues, nextSlot, nextBooking, nextRevenue>>

\* ------------------------------------------------------------ cancellation
\* Slots whose booking reference is b.
SlotsOfBooking(b) == {s \in SlotIds : slots[s].booking = b}

\* A banding that puts exactly 48 hours into the upper band.
RefundPercentageFrom48(hoursDiff) ==
  IF hoursDiff >= 48 THEN 80
  ELSE IF hoursDiff >= 24 THEN 50
  ELSE 0

\* refundPercentage (in percent) of the allotment cancel route.
RefundPercentage(hoursDiff) ==
  IF hoursDiff > 48 THEN 80
  ELSE IF hoursDiff >= 24 THEN 50
  ELSE 0

\* The 24-hour floor of the allotment cancel route.
CancelNotAllowed(hoursDiff, actor) == hoursDiff < 24 /\ Role(actor) # "admin"

\* Booking.findByIdAndUpdate(id, {status}) : no effect when id resolves to nothing.
SetBookingStatus(coll, id, status) ==
  IF id \in DOMAIN coll THEN Put(coll, id, [coll[id] EXCEPT !.status = status]) ELSE coll

\* POST /api/hall-alloted/:id/cancel
CancelAllotment(actor, s, hoursDiff) ==
  /\ UNCHANGED <<revenues, nextSlot, nextBooking, nextRevenue, inflight>>
  /\ IF s \notin SlotIds
       THEN /\ last' = Resp("cancelAllotment", "NotFound", NULL)
            /\ UNCHANGED <<slots, bookings>>
     ELSE IF slots[s].user = NoUser
       \* allotment.user.toString() throws on an availability slot
       THEN /\ last' = Resp("cancelAllotment", "ServerError", NULL)
            /\ UNCHANGED <<slots, bookings>>
     ELSE IF slots[s].user # actor /\ Role(actor) # "admin"
       THEN /\ last' = Resp("cancelAllotment", "Forbidden", NULL)
            /\ UNCHANGED <<slots, bookings>>
     ELSE IF CancelNotAllowed(hoursDiff, actor)
       THEN /\ last' = Resp("cancelAllotment", "PolicyViolation", NULL)
            /\ UNCHANGED <<slots, bookings>>
       ELSE /\ slots' = Put(slots, s,
                 [slots[s] EXCEPT !.status = "cancelled",
                                  !.cancellationDate = <<hoursDiff>>,
                                  !.refundAmount =
                                     Pct(slots[s].totalAmount, RefundPercentage(hoursDiff))])
            /\ bookings' = SetBookingStatus(bookings, slots[s].booking, "cancelled")
            /\ last' = Resp("cancelAllotment", "ok", s)

\* A restoration that leaves the customer on the slot.
RestoreSlotKeepsCustomer(slot) ==
  [slot EXCEPT !.status = "available",
               !.booking = NULL,
               !.totalAmount = 0,
               !.platformFee = 0,
               !.hallOwnerCommission = 0,
               !.paymentStatus = "not_applicable",
               !.isAvailabilitySlot = TRUE]

\* The slot document after the booking route has given it back.
RestoreSlot(slot) ==
  [slot EXCEPT !.status = "available",
               !.user = NoUser,
               !.booking = NULL,
               !.totalAmount = 0,
               !.platformFee = 0,
               !.hallOwnerCommission = 0,
               !.paymentStatus = "not_applicable",
               !.isAvailabilitySlot = TRUE]

\* A booking route that deletes a cancelled booking and leaves its slot.
DeleteBookingKeepsSlot(actor, b, hoursDiff) ==
  /\ UNCHANGED <<revenues, nextSlot, nextBooking, nextRevenue, inflight>>
  /\ IF b \notin BookingIds
       THEN /\ last' = Resp("cancelBooking", "NotFound", NULL)
            /\ UNCHANGED <<slots, bookings>>
     ELSE IF bookings[b].user # actor /\ Role(actor) # "admin"
       THEN /\ last' = Resp("cancelBooking", "Forbidden", NULL)
            /\ UNCHANGED <<slots, bookings>>
     ELSE IF bookings[b].status = "cancelled"
       THEN /\ bookings' = Remove(bookings, b)
            /\ UNCHANGED slots
            /\ last' = Resp("deleteBooking", "ok", b)
       ELSE /\ bookings' = SetBookingStatus(bookings, b, "cancelled")
            /\ IF SlotsOfBooking(b) = {}
                 THEN UNCHANGED slots
                 ELSE \E s \in SlotsOfBooking(b) :
                        slots' = Put(slots, s, RestoreSlot(slots[s]))
            /\ last' = Resp("cancelBooking", "ok", b)

\* DELETE /api/bookings/:id : deletes a cancelled booking, cancels any other.
\* hoursDiff is the time left until the booking starts when the request is
\* served; the route does not read the clock.
DeleteBookingRoute(actor, b, hoursDiff) ==
  /\ UNCHANGED <<revenues, nextSlot, nextBooking, nextRevenue, inflight>>
  /\ IF b \notin BookingIds
       THEN /\ last' = Resp("cancelBooking", "NotFound", NULL)
            /\ UNCHANGED <<slots, bookings>>
     ELSE IF bookings[b].user # actor /\ Role(actor) # "admin"
       THEN /\ last' = Resp("cancelBooking", "Forbidden", NULL)
            /\ UNCHANGED <<slots, bookings>>
     ELSE IF bookings[b].status = "cancelled"
       THEN /\ bookings' = Remove(bookings, b)
            /\ IF SlotsOfBooking(b) = {}
                 THEN UNCHANGED slots
                 ELSE \E s \in SlotsOfBooking(b) : slots' = Remove(slots, s)
            /\ last' = Resp("deleteBooking", "ok", b)
       ELSE /\ bookings' = SetBookingStatus(bookings, b, "cancelled")
            /\ IF SlotsOfBooking(b) = {}
                 THEN UNCHANGED slots
                 ELSE \E s \in SlotsOfBooking(b) :
                        slots' = Put(slots, s, RestoreSlot(slots[s]))
            /\ last' = Resp("cancelBooking", "ok", b)

\* A check-in that does not look at the slot's status.
CheckInAnyState(s) ==
  /\ UNCHANGED <<bookings, revenues, nextSlot, nextBooking, nextRevenue, inflight>>
  /\ IF s \notin SlotIds
       THEN /\ last' = Resp("checkIn", "NotFound", NULL)
            /\ UNCHANGED slots
       ELSE /\ slots' = Put(slots, s,
                 [slots[s] EXCEPT !.actualCheckIn = TRUE, !.status = "completed"])
            /\ last' = Resp("checkIn", "ok", s)

\* POST /api/hall-alloted/:id/checkin
CheckIn(s) ==
  /\ UNCHANGED <<bookings, revenues, nextSlot, nextBooking, nextRevenue, inflight>>
  /\ IF s \notin SlotIds
       THEN /\ last' = Resp("checkIn", "NotFound", NULL)
            /\ UNCHANGED slots
     ELSE IF slots[s].status # "confirmed"
       THEN /\ last' = Resp("checkIn", "PolicyViolation", NULL)
            /\ UNCHANGED slots
       ELSE /\ slots' = Put(slots, s,
                 [slots[s] EXCEPT !.actualCheckIn = TRUE, !.status = "completed"])
            /\ last' = Resp("checkIn", "ok", s)

\* ------------------------------------------------------ allotment creation
\* The query of the allotment conflict check: HallAlloted documents of the
\* hall and date that are confirmed or completed and overlap the interval.
ConflictingAllotments(hall, date, startTime, endTime) ==
  {s \in SlotIds :
     /\ slots[s].hall = hall
     /\ slots[s].allotmentDate = date
     /\ slots[s].status \in {"confirmed", "completed"}
     /\ StrLT(slots[s].startTime, endTime)
     /\ StrLT(startTime, slots[s].endTime)}

\* User.findOne({role: "admin"})
DummyUser == "admin"

\* totalAmount a request to create an allotment may carry (hundredths).
AllotmentAmounts == {100000}

\* POST /api/hall-alloted without isAvailabilitySlot, up to the conflict check.
\* booking is the booking id of the request body, NULL when it has none.
AllotCheck(r, actor, hall, date, iv, booking, totalAmount) ==
  /\ inflight[r] = Idle
  /\ UNCHANGED <<slots, bookings, revenues, nextSlot, nextBooking, nextRevenue>>
  /\ IF hall \notin Halls
       THEN /\ last' = Resp("createAllotment", "NotFound", NULL)
            /\ UNCHANGED inflight
     ELSE IF ConflictingAllotments(hall, date, iv[1], iv[2]) # {}
       THEN /\ last' = Resp("createAllotment", "Conflict", NULL)
            /\ UNCHANGED inflight
       ELSE /\ Start(r, [kind |-> "allot", pc |-> "write", user |-> actor,
                         hall |-> hall, date |-> date,
                         startTime |-> iv[1], endTime |-> iv[2],
                         booking |-> booking, totalAmount |-> totalAmount])
            /\ last' = Resp("createAllotment", "step", NULL)

\* The dummy booking (when the request names none) and the allotment are saved.
AllotWrite(r) ==
  /\ At(r, "allot", "write")
  /\ nextSlot <= MaxSlots
  /\ LET q == inflight[r]
         duration == calculateDuration(q.startTime, q.endTime)
         bookingId == IF q.booking = NULL THEN nextBooking ELSE q.booking
     IN /\ IF q.booking = NULL
             THEN /\ nextBooking <= MaxBookings
                  /\ bookings' = Put(bookings, nextBooking,
                       [id |-> nextBooking, user |-> DummyUser, hall |-> q.hall,
                        bookingDate |-> q.date, startTime |-> q.startTime,
                        endTime |-> q.endTime, totalHours |-> duration,
                        totalAmount |-> q.totalAmount,
                        status |-> "confirmed", paymentStatus |-> "pending"])
                  /\ nextBooking' = nextBooking + 1
             ELSE UNCHANGED <<bookings, nextBooking>>
        /\ slots' = Put(slots, nextSlot,
             [id |-> nextSlot, hall |-> q.hall, user |-> q.user, booking |-> bookingId,
              allotmentDate |-> q.date, startTime |-> q.startTime, endTime |-> q.endTime,
              duration |-> duration,
              totalAmount |-> q.totalAmount,
              platformFee |-> Pct(q.totalAmount, 5),
              hallOwnerCommission |-> Pct(q.totalAmount, 90),
              status |-> "confirmed", paymentStatus |-> "pending",
              isAvailabilitySlot |-> FALSE,
              refundAmount |-> 0, cancellationDate |-> << >>, actualCheckIn |-> FALSE,
              feedback |-> << >>, isRecurring |-> FALSE])
  /\ nextSlot' = nextSlot + 1
  /\ Finish(r)
  /\ last' = Resp("createAllotment", "ok", nextSlot)
  /\ UNCHANGED <<revenues, nextRevenue>>

\* ------------------------------------------------- completion and revenue
RevenuesOfBooking(b) == {v \in RevenueIds : revenues[v].booking = b}

\* Math.round of an amount kept in hundredths, to whole currency units.
RoundAmount(amount) == 100 * RoundDiv(amount, 100)

RevenueDoc(id, booking, totalAmount, hallOwnerCommission, platformFee) ==
  [id |-> id, booking |-> booking, totalAmount |-> totalAmount,
   hallOwnerCommission |-> hallOwnerCommission, platformFee |-> platformFee,
   status |-> "completed"]

\* PUT /api/bookings/:id/status, up to and including booking.save().  The
\* owner of the booking's hall and every admin are authorized.
StatusSet(r, actor, b, status) ==
  /\ inflight[r] = Idle
  /\ UNCHANGED <<slots, revenues, nextSlot, nextBooking, nextRevenue>>
  /\ IF b \notin BookingIds
       THEN /\ last' = Resp("updateStatus", "NotFound", NULL)
            /\ UNCHANGED <<bookings, inflight>>
     ELSE IF HallOwner(bookings[b].hall) # actor /\ Role(actor) # "admin"
       THEN /\ last' = Resp("updateStatus", "Forbidden", NULL)
            /\ UNCHANGED <<bookings, inflight>>
       ELSE /\ bookings' = SetBookingStatus(bookings, b, status)
            /\ IF status = "completed"
                 THEN /\ Start(r, [kind |-> "status", pc |-> "revcheck", booking |-> b,
                                   totalAmount |-> bookings[b].totalAmount])
                      /\ last' = Resp("updateStatus", "step", NULL)
                 ELSE /\ UNCHANGED inflight
                      /\ last' = Resp("updateStatus", "ok", b)

\* await OwnerRevenue.findOne({ booking })
StatusRevCheck(r) ==
  /\ At(r, "status", "revcheck")
  /\ UNCHANGED <<slots, bookings, revenues, nextSlot, nextBooking, nextRevenue>>
  /\ IF RevenuesOfBooking(inflight[r].booking) # {}
       THEN /\ Finish(r)
            /\ last' = Resp("updateStatus", "ok", inflight[r].booking)
       ELSE /\ inflight' = [inflight EXCEPT ![r].pc = "revwrite"]
            /\ last' = Resp("updateStatus", "step", NULL)

\* await ownerRevenue.save() inside try/catch; fails is the write throwing.
StatusRevWrite(r, fails) ==
  /\ At(r, "status", "revwrite")
  /\ IF fails
       THEN UNCHANGED <<revenues, nextRevenue>>
       ELSE /\ nextRevenue <= MaxRevenues
            /\ revenues' = Put(revenues, nextRevenue,
                 RevenueDoc(nextRevenue, inflight[r].booking, inflight[r].totalAmount,
                            RoundAmount(Pct(inflight[r].totalAmount, 90)),
                            RoundAmount(Pct(inflight[r].totalAmount, 10))))
            /\ nextRevenue' = nextRevenue + 1
  /\ Finish(r)
  /\ last' = Resp("updateStatus", "ok", inflight[r].booking)
  /\ UNCHANGED <<slots, bookings, nextSlot, nextBooking>>

\* POST /api/owner-revenue/complete-booking, up to the existing-revenue check.
CompleteCheck(r, actor, b) ==
  /\ inflight[r] = Idle
  /\ UNCHANGED <<slots, bookings, revenues, nextSlot, nextBooking, nextRevenue>>
  /\ IF Role(actor) # "hall_owner"
       THEN /\ last' = Resp("completeBooking", "Forbidden", NULL)
            /\ UNCHANGED inflight
     ELSE IF b \notin BookingIds
       THEN /\ last' = Resp("completeBooking", "NotFound", NULL)
            /\ UNCHANGED inflight
     ELSE IF HallOwner(bookings[b].hall) # actor
       THEN /\ last' = Resp("completeBooking", "Forbidden", NULL)
            /\ UNCHANGED inflight
     ELSE IF RevenuesOfBooking(b) # {}
       THEN /\ last' = Resp("completeBooking", "BadRequest", NULL)
            /\ UNCHANGED inflight
       ELSE /\ Start(r, [kind |-> "complete", pc |-> "write", booking |-> b,
                         totalAmount |-> bookings[b].totalAmount])
            /\ last' = Resp("completeBooking", "step", NULL)

\* await ownerRevenue.save(); booking.status = "completed"; await booking.save()
CompleteWrite(r, fails) ==
  /\ At(r, "complete", "write")
  /\ IF fails
       THEN /\ UNCHANGED <<revenues, nextRevenue, bookings>>
            /\ last' = Resp("completeBooking", "ServerError", NULL)
       ELSE /\ nextRevenue <= MaxRevenues
            /\ revenues' = Put(revenues, nextRevenue,
                 RevenueDoc(nextRevenue, inflight[r].booking, inflight[r].totalAmount,
                            inflight[r].totalAmount, 0))
            /\ nextRevenue' = nextRevenue + 1
            /\ bookings' = SetBookingStatus(bookings, inflight[r].booking, "completed")
            /\ last' = Resp("completeBooking", "ok", inflight[r].booking)
  /\ Finish(r)
  /\ UNCHANGED <<slots, nextSlot, nextBooking>>

\* totalAmount a request to create a revenue record may carry (hundredths).
RevenueAmounts == {100000}

\* POST /api/owner-revenue, up to the existing-revenue check.  The request
\* carries no hallOwnerCommission and no platformFee.
RevenueCheck(r, b, totalAmount) ==
  /\ inflight[r] = Idle
  /\ UNCHANGED <<slots, bookings, revenues, nextSlot, nextBooking, nextRevenue>>
  /\ IF RevenuesOfBooking(b) # {}
       THEN /\ last' = Resp("createRevenue", "BadRequest", NULL)
            /\ UNCHANGED inflight
       ELSE /\ Start(r, [kind |-> "revenue", pc |-> "write", booking |-> b,
                         totalAmount |-> totalAmount])
            /\ last' = Resp("createRevenue", "step", NULL)

\* await revenue.save()
RevenueWrite(r) ==
  /\ At(r, "revenue", "write")
  /\ nextRevenue <= MaxRevenues
  /\ revenues' = Put(revenues, nextRevenue,
       RevenueDoc(nextRevenue, inflight[r].booking, inflight[r].totalAmount,
                  Pct(inflight[r].totalAmount, 90), Pct(inflight[r].totalAmount, 10)))
  /\ nextRevenue' = nextRevenue + 1
  /\ Finish(r)
  /\ last' = Resp("createRevenue", "ok", nextRevenue)
  /\ UNCHANGED <<slots, bookings, nextSlot, nextBooking>>

\* ------------------------------------------------- feedback, update, delete
\* rating a feedback request may carry; the schema accepts 1 to 5.
Ratings == {4, 5, 6}
ValidRating(rating) == rating >= 1 /\ rating <= 5

\* POST /api/hall-alloted/:id/feedback
SubmitFeedback(actor, s, rating) ==
  /\ UNCHANGED <<bookings, revenues, nextSlot, nextBooking, nextRevenue, inflight>>
  /\ IF s \notin SlotIds
       THEN /\ last' = Resp("submitFeedback", "NotFound", NULL)
            /\ UNCHANGED slots
     ELSE IF slots[s].user = NoUser
       \* allotment.user.toString() throws on a slot without a user
       THEN /\ last' = Resp("submitFeedback", "ServerError", NULL)
            /\ UNCHANGED slots
     ELSE IF slots[s].user # actor
       THEN /\ last' = Resp("submitFeedback", "Forbidden", NULL)
            /\ UNCHANGED slots
     ELSE IF slots[s].status # "completed"
       THEN /\ last' = Resp("submitFeedback", "PolicyViolation", NULL)
            /\ UNCHANGED slots
     ELSE IF ~ValidRating(rating)
       \* allotment.save() rejects the rating
       THEN /\ last' = Resp("submitFeedback", "ServerError", NULL)
            /\ UNCHANGED slots
       ELSE /\ slots' = Put(slots, s, [slots[s] EXCEPT !.feedback = <<rating>>])
            /\ last' = Resp("submitFeedback", "ok", s)

\* Object.assign(target, source)
Assign(target, source) ==
  [f \in DOMAIN target |-> IF f \in DOMAIN source THEN source[f] ELSE target[f]]

\* The fields the update route forces on an availability slot.
ForcedOnAvailabilitySlot ==
  [user |-> NoUser, booking |-> NULL, status |-> "available",
   paymentStatus |-> "not_applicable",
   totalAmount |-> 0, platformFee |-> 0, hallOwnerCommission |-> 0]

\* allotment.validate(): the enums, and user and booking required unless the
\* document is an availability slot.
ValidSlot(slot) ==
  /\ slot.status \in SlotStatus
  /\ slot.paymentStatus \in PaymentStatus
  /\ ~slot.isAvailabilitySlot => (slot.user # NoUser /\ slot.booking # NULL)

\* Bodies a request to update a slot may carry.
UpdateBodies ==
  {[status |-> "no_show"], [status |-> "available"], [status |-> "confirmed"],
   [paymentStatus |-> "not_applicable"],
   [isAvailabilitySlot |-> TRUE], [isAvailabilitySlot |-> FALSE]}

\* PUT /api/hall-alloted/:id
UpdateSlot(actor, s, updates) ==
  /\ UNCHANGED <<bookings, revenues, nextSlot, nextBooking, nextRevenue, inflight>>
  /\ IF s \notin SlotIds
       THEN /\ last' = Resp("updateSlot", "NotFound", NULL)
            /\ UNCHANGED slots
       ELSE LET slot == slots[s]
                isAuthorized ==
                  IF Role(actor) = "admin" THEN TRUE
                  ELSE IF slot.isAvailabilitySlot THEN HallOwner(slot.hall) = actor
                  ELSE IF slot.user # NoUser THEN slot.user = actor
                  ELSE FALSE
                \* the forced fields replace those of the request body
                body == IF slot.isAvailabilitySlot
                          THEN ForcedOnAvailabilitySlot @@ updates
                          ELSE updates
                updated == Assign(slot, body)
            IN IF ~isAuthorized
                 THEN /\ last' = Resp("updateSlot", "Forbidden", NULL)
                      /\ UNCHANGED slots
               ELSE IF ~ValidSlot(updated)
                 THEN /\ last' = Resp("updateSlot", "BadRequest", NULL)
                      /\ UNCHANGED slots
                 ELSE /\ slots' = Put(slots, s, updated)
                      /\ last' = Resp("updateSlot", "ok", s)

\* DELETE /api/hall-alloted/:id ; fails is Booking.findByIdAndUpdate throwing
\* in the branch of the hall owner, where the error is caught and the
\* deletion goes on.
DeleteAllotment(actor, s, fails) ==
  /\ UNCHANGED <<revenues, nextSlot, nextBooking, nextRevenue, inflight>>
  /\ IF s \notin SlotIds
       THEN /\ last' = Resp("deleteAllotment", "NotFound", NULL)
            /\ UNCHANGED <<slots, bookings>>
     ELSE IF HallOwner(slots[s].hall) # actor /\ Role(actor) # "admin"
       THEN /\ last' = Resp("deleteAllotment", "Forbidden", NULL)
            /\ UNCHANGED <<slots, bookings>>
     ELSE IF slots[s].isAvailabilitySlot \/ slots[s].status = "cancelled"
       THEN /\ slots' = Remove(slots, s)
            /\ UNCHANGED bookings
            /\ last' = Resp("deleteAllotment", "ok", s)
     ELSE IF HallOwner(slots[s].hall) = actor
       THEN /\ bookings' = IF slots[s].booking # NULL /\ ~fails
                              THEN SetBookingStatus(bookings, slots[s].booking, "cancelled")
                              ELSE bookings
            /\ slots' = Remove(slots, s)
            /\ last' = Resp("deleteAllotment", "ok", s)
       ELSE /\ last' = Resp("deleteAllotment", "BadRequest", NULL)
            /\ UNCHANGED <<slots, bookings>>


\* ------------------------------------------------------------------ queries
\* GET /api/hall-alloted/hall/:hallId/availability : the documents found.
AvailabilityQuery(hall) ==
  {s \in SlotIds : /\ slots[s].hall = hall
                   /\ slots[s].status = "available"
                   /\ slots[s].isAvailabilitySlot = TRUE}

\* GET /api/hall-alloted/hall/:hallId/bookings : the documents found.
BookedQuery(hall) ==
  {s \in SlotIds : /\ slots[s].hall = hall
                   /\ slots[s].status \in {"confirmed", "completed", "cancelled"}
                   /\ slots[s].status # "available"
                   /\ slots[s].isAvailabilitySlot = FALSE}

\* .sort({ allotmentDate: 1, startTime: 1 }) : the orders in which the
\* documents found may be returned (documents with equal keys in any order).
SortedByDateAndStart(found) ==
  {q \in [1..Cardinality(found) -> found] :
     /\ \A i \in DOMAIN q, j \in DOMAIN q : i # j => q[i] # q[j]
     /\ \A i \in DOMAIN q, j \in DOMAIN q :
          i < j => \/ slots[q[i]].allotmentDate < slots[q[j]].allotmentDate
                   \/ /\ slots[q[i]].allotmentDate = slots[q[j]].allotmentDate
                      /\ ~StrLT(slots[q[j]].startTime, slots[q[i]].startTime)}


\* ------------------------------------------------------- failing writes
\* POST /api/bookings when matchingSlot.save() throws: the handler's catch
\* answers 500; the booking saved before it stays.
BookSyncFails(r) ==
  /\ At(r, "book", "sync")
  /\ MatchingSlots(inflight[r].hall, inflight[r].date,
                   inflight[r].startTime, inflight[r].endTime) # {}
  /\ Finish(r)
  /\ last' = Resp("createBooking", "ServerError", NULL)
  /\ UNCHANGED <<slots, bookings, revenues, nextSlot, nextBooking, nextRevenue>>

\* POST /api/hall-alloted when allotment.save() throws: the handler's catch
\* answers 500; the dummy booking saved before it stays.
AllotWriteFails(r) ==
  /\ At(r, "allot", "write")
  /\ LET q == inflight[r]
     IN IF q.booking = NULL
          THEN /\ nextBooking <= MaxBookings
               /\ bookings' = Put(bookings, nextBooking,
                    [id |-> nextBooking, user |-> DummyUser, hall |-> q.hall,
                     bookingDate |-> q.date, startTime |-> q.startTime,
                     endTime |-> q.endTime,
                     totalHours |-> calculateDuration(q.startTime, q.endTime),
                     totalAmount |-> q.totalAmount,
                     status |-> "confirmed", paymentStatus |-> "pending"])
               /\ nextBooking' = nextBooking + 1
          ELSE UNCHANGED <<bookings, nextBooking>>
  /\ Finish(r)
  /\ last' = Resp("createAllotment", "ServerError", NULL)
  /\ UNCHANGED <<slots, revenues, nextSlot, nextRevenue>>


\* ------------------------------------------------------ revenue maintenance
\* Bodies of PUT /api/owner-revenue/:id.
RevenueUpdates ==
  {[status |-> "refunded"], [status |-> "completed"], [status |-> "pending"],
   [totalAmount |-> 0]}

\* Validation of the OwnerRevenue schema on save.
ValidRevenue(doc) ==
  /\ doc.status \in {"completed", "refunded"}
  /\ doc.totalAmount >= 0
  /\ doc.hallOwnerCommission >= 0
  /\ doc.platformFee >= 0

\* PUT /api/owner-revenue/:id : admins pass the authorization; for anyone else
\* it is revenue.hallOwner.toString() !== req.user._id, whose outcome for the
\* record's hall owner depends on the type of req.user._id (sameId).
UpdateRevenue(actor, v, updates, sameId) ==
  /\ UNCHANGED <<slots, bookings, nextSlot, nextBooking, nextRevenue, inflight>>
  /\ IF v \notin RevenueIds
       THEN /\ last' = Resp("updateRevenue", "NotFound", NULL)
            /\ UNCHANGED revenues
     ELSE IF /\ Role(actor) # "admin"
             /\ ~(/\ sameId
                  /\ revenues[v].booking \in BookingIds
                  /\ HallOwner(bookings[revenues[v].booking].hall) = actor)
       THEN /\ last' = Resp("updateRevenue", "Forbidden", NULL)
            /\ UNCHANGED revenues
     ELSE IF ~ValidRevenue(Assign(revenues[v], updates))
       THEN /\ last' = Resp("updateRevenue", "ServerError", NULL)
            /\ UNCHANGED revenues
       ELSE /\ revenues' = [revenues EXCEPT ![v] = Assign(revenues[v], updates)]
            /\ last' = Resp("updateRevenue", "ok", v)

\* DELETE /api/owner-revenue/:id : admins only.
DeleteRevenue(actor, v) ==
  /\ UNCHANGED <<slots, bookings, nextSlot, nextBooking, nextRevenue, inflight>>
  /\ IF Role(actor) # "admin"
       THEN /\ last' = Resp("deleteRevenue", "Forbidden", NULL)
            /\ UNCHANGED revenues
     ELSE IF v \notin RevenueIds
       THEN /\ last' = Resp("deleteRevenue", "NotFound", NULL)
            /\ UNCHANGED revenues
       ELSE /\ revenues' = Remove(revenues, v)
            /\ last' = Resp("deleteRevenue", "ok", v)


\* ------------------------------------------------------------------ payments
\* hoursBefore between the booking's start and `now`, as seen by a refund.
HoursBefore == {10, 24}

\* POST /api/payments/verify, up to the answer of Booking.findById.
VerifyCheck(r, actor, b) ==
  /\ inflight[r] = Idle
  /\ UNCHANGED <<slots, bookings, revenues, nextSlot, nextBooking, nextRevenue>>
  /\ IF b \notin BookingIds
       THEN /\ last' = Resp("verifyPayment", "NotFound", NULL)
            /\ UNCHANGED inflight
     ELSE IF bookings[b].user # actor
       THEN /\ last' = Resp("verifyPayment", "Forbidden", NULL)
            /\ UNCHANGED inflight
       ELSE /\ Start(r, [kind |-> "verify", pc |-> "write", booking |-> b])
            /\ last' = Resp("verifyPayment", "step", NULL)

\* booking.paymentStatus = "paid"; booking.status = "confirmed"; booking.save()
VerifyWrite(r) ==
  /\ At(r, "verify", "write")
  /\ LET b == inflight[r].booking
     IN IF b \notin BookingIds
          THEN /\ UNCHANGED bookings
               /\ last' = Resp("verifyPayment", "ServerError", NULL)
          ELSE /\ bookings' = [bookings EXCEPT ![b].paymentStatus = "paid",
                                               ![b].status = "confirmed"]
               /\ last' = Resp("verifyPayment", "ok", b)
  /\ Finish(r)
  /\ UNCHANGED <<slots, revenues, nextSlot, nextBooking, nextRevenue>>

\* POST /api/payments/refund/:bookingId, up to the last of its checks.
RefundCheck(r, actor, b, hoursBefore) ==
  /\ inflight[r] = Idle
  /\ UNCHANGED <<slots, bookings, revenues, nextSlot, nextBooking, nextRevenue>>
  /\ IF b \notin BookingIds
       THEN /\ last' = Resp("refundPayment", "NotFound", NULL)
            /\ UNCHANGED inflight
     ELSE IF bookings[b].user # actor
       THEN /\ last' = Resp("refundPayment", "Forbidden", NULL)
            /\ UNCHANGED inflight
     ELSE IF bookings[b].paymentStatus # "paid" \/ hoursBefore < 24
       THEN /\ last' = Resp("refundPayment", "BadRequest", NULL)
            /\ UNCHANGED inflight
       ELSE /\ Start(r, [kind |-> "refund", pc |-> "write", booking |-> b])
            /\ last' = Resp("refundPayment", "step", NULL)

\* booking.paymentStatus = "refunded"; booking.status = "cancelled"; booking.save()
RefundWrite(r) ==
  /\ At(r, "refund", "write")
  /\ LET b == inflight[r].booking
     IN IF b \notin BookingIds
          THEN /\ UNCHANGED bookings
               /\ last' = Resp("refundPayment", "ServerError", NULL)
          ELSE /\ bookings' = [bookings EXCEPT ![b].paymentStatus = "refunded",
                                               ![b].status = "cancelled"]
               /\ last' = Resp("refundPayment", "ok", b)
  /\ Finish(r)
  /\ UNCHANGED <<slots, revenues, nextSlot, nextBooking, nextRevenue>>

\* ----------------------------------------------------------- specifications
NoneInFlight == Busy = {}

\* The step answers with a success, or with one of the given errors.  (A step
\* that answers with an error changes no document, so leaving its other
\* errors out removes no state of the collections.)
Answers(errors) == last'.result \in {"ok", "step"} \cup errors

Customers == {u \in Users : Role(u) = "user"}

\* Hall owner publishes slots, customers book, slots and bookings are
\* cancelled, deleted and checked in.  Every request is served to its
\* response before the next one is accepted.
Next ==
  \/ \E d \in Dates, iv \in Intervals :
       NoneInFlight /\ PublishSlot("owner", "h1", d, iv)
  \/ \E a \in Customers, d \in Dates, iv \in Intervals :
       NoneInFlight /\ BookCheck(1, a, "h1", d, iv) /\ Answers({"Conflict"})
  \/ BookWrite(1)
  \/ BookSync(1)
  \/ \E d \in Dates, iv \in Intervals, t \in AllotmentAmounts :
       NoneInFlight /\ AllotCheck(1, "alice", "h1", d, iv, NULL, t) /\ Answers({})
  \/ AllotWrite(1)
  \/ \E a \in Users, s \in 1..MaxSlots, hd \in HoursUntilStart :
       NoneInFlight /\ CancelAllotment(a, s, hd) /\ Answers({"PolicyViolation"})
  \/ \E a \in Users, b \in 1..MaxBookings, hd \in HoursUntilStart :
       NoneInFlight /\ DeleteBookingRoute(a, b, hd) /\ Answers({"PolicyViolation"})
  \/ \E s \in 1..MaxSlots : NoneInFlight /\ CheckIn(s) /\ Answers({})

Spec == Init /\ [][Next]_vars

\* Publishing, booking and the owner/admin status update, one request at a time.
StatusNext ==
  \/ \E d \in Dates, iv \in Intervals :
       NoneInFlight /\ PublishSlot("owner", "h1", d, iv)
  \/ \E a \in Customers, d \in Dates, iv \in Intervals :
       NoneInFlight /\ BookCheck(1, a, "h1", d, iv) /\ Answers({"Conflict"})
  \/ BookWrite(1)
  \/ BookSync(1)
  \/ \E a \in {"owner", "admin"}, b \in 1..MaxBookings, st \in BookingStatus :
       NoneInFlight /\ StatusSet(1, a, b, st) /\ Answers({})
  \/ StatusRevCheck(1)
  \/ \E f \in BOOLEAN : StatusRevWrite(1, f)

StatusSpec == Init /\ [][StatusNext]_vars

\* Requests to create a booking are served concurrently: up to MaxInflight
\* handlers are suspended at an await at the same time.
ConcurrentNext ==
  \/ \E d \in Dates, iv \in Intervals : PublishSlot("owner", "h1", d, iv)
  \/ \E r \in 1..MaxInflight, a \in Customers, d \in Dates, iv \in Intervals :
       BookCheck(r, a, "h1", d, iv) /\ Answers({"Conflict"})
  \/ \E r \in 1..MaxInflight : BookWrite(r)
  \/ \E r \in 1..MaxInflight : BookSync(r)

ConcurrentSpec == Init /\ [][ConcurrentNext]_vars

\* One customer books published and unpublished intervals; the customer and
\* an admin cancel on both cancellation routes, one request at a time.  The
\* booking route is called 10 hours before the start (it does not read the
\* clock, so every other time gives the same steps).
CancellationNext ==
  \/ \E d \in Dates, iv \in Intervals :
       NoneInFlight /\ PublishSlot("owner", "h1", d, iv)
  \/ \E d \in Dates, iv \in Intervals :
       NoneInFlight /\ BookCheck(1, "alice", "h1", d, iv) /\ Answers({"Conflict"})
  \/ BookWrite(1)
  \/ BookSync(1)
  \/ \E a \in {"alice", "admin"}, s \in 1..MaxSlots, hd \in HoursUntilStart :
       NoneInFlight /\ CancelAllotment(a, s, hd) /\ Answers({"PolicyViolation"})
  \/ \E a \in {"alice", "admin"}, b \in 1..MaxBookings :
       NoneInFlight /\ DeleteBookingRoute(a, b, 10) /\ Answers({})

CancellationSpec == Init /\ [][CancellationNext]_vars

\* One customer books published slots; slots are checked in, set to no_show
\* or cancelled by an admin, one request at a time.  A check-in may name a
\* slot that does not exist, and its errors are answered.
CheckInNext ==
  \/ \E d \in Dates, iv \in Intervals :
       NoneInFlight /\ PublishSlot("owner", "h1", d, iv)
  \/ \E d \in Dates, iv \in Intervals :
       NoneInFlight /\ BookCheck(1, "alice", "h1", d, iv) /\ Answers({"Conflict"})
  \/ BookWrite(1)
  \/ BookSync(1)
  \/ \E s \in 1..MaxSlots :
       NoneInFlight /\ CheckIn(s) /\ Answers({"NotFound", "PolicyViolation"})
  \/ \E s \in 1..MaxSlots :
       NoneInFlight /\ UpdateSlot("admin", s, [status |-> "no_show"]) /\ Answers({})
  \/ \E s \in 1..MaxSlots :
       NoneInFlight /\ CancelAllotment("admin", s, 30) /\ Answers({})

CheckInSpec == Init /\ [][CheckInNext]_vars

\* One customer books published slots; slots are checked in, given feedback
\* by the customer or by another user, set to no_show by an admin and
\* cancelled on both routes, one request at a time.  Requests may name a slot
\* that does not exist, and their errors are answered.
VisitNext ==
  \/ \E d \in Dates, iv \in Intervals :
       NoneInFlight /\ PublishSlot("owner", "h1", d, iv)
  \/ \E d \in Dates, iv \in Intervals :
       NoneInFlight /\ BookCheck(1, "alice", "h1", d, iv) /\ Answers({"Conflict"})
  \/ BookWrite(1)
  \/ BookSync(1)
  \/ \E s \in 1..MaxSlots :
       NoneInFlight /\ CheckIn(s) /\ Answers({"NotFound", "PolicyViolation"})
  \/ \E a \in {"alice", "bob"}, s \in 1..MaxSlots, rt \in Ratings :
       NoneInFlight /\ SubmitFeedback(a, s, rt)
         /\ Answers({"Forbidden", "PolicyViolation", "ServerError"})
  \/ \E s \in 1..MaxSlots :
       NoneInFlight /\ UpdateSlot("admin", s, [status |-> "no_show"]) /\ Answers({})
  \/ \E s \in 1..MaxSlots :
       NoneInFlight /\ CancelAllotment("admin", s, 30) /\ Answers({})
  \/ \E b \in 1..MaxBookings :
       NoneInFlight /\ DeleteBookingRoute("alice", b, 10) /\ Answers({})

VisitSpec == Init /\ [][VisitNext]_vars

\* One customer books published slots; slots are cancelled by the customer
\* or an admin and deleted by any user, one request at a time.  The errors
\* of a delete are answered.
DeletionNext ==
  \/ \E d \in Dates, iv \in Intervals :
       NoneInFlight /\ PublishSlot("owner", "h1", d, iv)
  \/ \E d \in Dates, iv \in Intervals :
       NoneInFlight /\ BookCheck(1, "alice", "h1", d, iv) /\ Answers({"Conflict"})
  \/ BookWrite(1)
  \/ BookSync(1)
  \/ \E a \in {"alice", "admin"}, s \in 1..MaxSlots :
       NoneInFlight /\ CancelAllotment(a, s, 30) /\ Answers({})
  \/ \E a \in Users, s \in 1..MaxSlots, f \in BOOLEAN :
       NoneInFlight /\ DeleteAllotment(a, s, f) /\ Answers({"Forbidden", "BadRequest"})

DeletionSpec == Init /\ [][DeletionNext]_vars

\* One customer books published slots; every user asks for cancellations on
\* both routes, 30 hours before the start, one request at a time.  A refusal
\* of the actor is answered.
AccessNext ==
  \/ \E d \in Dates, iv \in Intervals :
       NoneInFlight /\ PublishSlot("owner", "h1", d, iv)
  \/ \E d \in Dates, iv \in Intervals :
       NoneInFlight /\ BookCheck(1, "alice", "h1", d, iv) /\ Answers({"Conflict"})
  \/ BookWrite(1)
  \/ BookSync(1)
  \/ \E a \in Users, s \in 1..MaxSlots :
       NoneInFlight /\ CancelAllotment(a, s, 30) /\ Answers({"Forbidden"})
  \/ \E a \in Users, b \in 1..MaxBookings :
       NoneInFlight /\ DeleteBookingRoute(a, b, 30) /\ Answers({"Forbidden"})

AccessSpec == Init /\ [][AccessNext]_vars

\* One customer books published slots; the customer and the hall owner
\* update slots; slots are checked in and cancelled on both routes, one
\* request at a time.  An update that fails validation is answered.
UpdateNext ==
  \/ \E d \in Dates, iv \in Intervals :
       NoneInFlight /\ PublishSlot("owner", "h1", d, iv)
  \/ \E d \in Dates, iv \in Intervals :
       NoneInFlight /\ BookCheck(1, "alice", "h1", d, iv) /\ Answers({"Conflict"})
  \/ BookWrite(1)
  \/ BookSync(1)
  \/ \E a \in {"alice", "owner"}, s \in 1..MaxSlots, u \in UpdateBodies :
       NoneInFlight /\ UpdateSlot(a, s, u) /\ Answers({"BadRequest"})
  \/ \E s \in 1..MaxSlots : NoneInFlight /\ CheckIn(s) /\ Answers({})
  \/ \E s \in 1..MaxSlots :
       NoneInFlight /\ CancelAllotment("alice", s, 30) /\ Answers({})
  \/ \E b \in 1..MaxBookings :
       NoneInFlight /\ DeleteBookingRoute("alice", b, 30) /\ Answers({})

UpdateSpec == Init /\ [][UpdateNext]_vars

\* The number of slots a recurring publication is going to save: requests
\* that would take the slot ids beyond MaxSlots are not served.
RecurringCount(date, endDate, recurringDays) ==
  Cardinality({day \in date..endDate : Weekday(day) \in recurringDays})

\* The hall owner publishes single and recurring slots, for halls that exist
\* and for one that does not, and one customer books, one request at a time.
\* Recurring publications end before their start, on day 3 or on day MaxDay.
PublicationNext ==
  \/ \E h \in HallIds, d \in Dates, iv \in Intervals :
       NoneInFlight /\ PublishSlot("owner", h, d, iv) /\ Answers({"NotFound"})
  \/ \E h \in HallIds, d \in RecurrenceStarts, iv \in Intervals,
          e \in {0, 3, MaxDay}, w \in RecurringDaySets :
       /\ NoneInFlight
       /\ nextSlot + RecurringCount(d, e, w) - 1 <= MaxSlots
       /\ PublishRecurringStart(1, "owner", h, d, iv, e, w)
       /\ Answers({"NotFound"})
  \/ PublishRecurringSave(1)
  \/ \E d \in Dates, iv \in Intervals :
       NoneInFlight /\ BookCheck(1, "alice", "h1", d, iv) /\ Answers({"Conflict"})
  \/ BookWrite(1)
  \/ BookSync(1)

PublicationSpec == Init /\ [][PublicationNext]_vars

\* The hall owner publishes recurring slots with every start, end and set
\* of weekdays, one request at a time.  A request that has started goes on:
\* the handler's loop is not suspended for ever.
RecurringNext ==
  \/ \E d \in RecurrenceStarts, iv \in Intervals,
          e \in RecurrenceEnds, w \in RecurringDaySets :
       /\ NoneInFlight
       /\ nextSlot + RecurringCount(d, e, w) - 1 <= MaxSlots
       /\ PublishRecurringStart(1, "owner", "h1", d, iv, e, w)
  \/ PublishRecurringSave(1)

RecurringSpec == Init /\ [][RecurringNext]_vars /\ WF_vars(PublishRecurringSave(1))

\* Bookings are created one at a time; the three completion paths are served
\* concurrently.
CompletionNext ==
  \/ \E a \in Customers, d \in Dates, iv \in Intervals :
       NoneInFlight /\ BookCheck(1, a, "h1", d, iv) /\ Answers({"Conflict"})
  \/ BookWrite(1)
  \/ BookSync(1)
  \/ \E r \in 1..MaxInflight, a \in {"owner", "admin"}, b \in 1..MaxBookings :
       StatusSet(r, a, b, "completed") /\ Answers({})
  \/ \E r \in 1..MaxInflight : StatusRevCheck(r)
  \/ \E r \in 1..MaxInflight, f \in BOOLEAN : StatusRevWrite(r, f)
  \/ \E r \in 1..MaxInflight, b \in 1..MaxBookings :
       CompleteCheck(r, "owner", b) /\ Answers({"BadRequest"})
  \/ \E r \in 1..MaxInflight, f \in BOOLEAN : CompleteWrite(r, f)
  \/ \E r \in 1..MaxInflight, b \in 1..MaxBookings, t \in RevenueAmounts :
       RevenueCheck(r, b, t) /\ Answers({"BadRequest"})
  \/ \E r \in 1..MaxInflight : RevenueWrite(r)

CompletionSpec == Init /\ [][CompletionNext]_vars


\* The hall owner publishes slots and one customer books, for intervals that
\* end after, at and before their start, one request at a time.
DurationNext ==
  \/ \E d \in Dates, iv \in ClockIntervals :
       NoneInFlight /\ PublishSlot("owner", "h1", d, iv)
  \/ \E d \in Dates, iv \in ClockIntervals :
       NoneInFlight /\ BookCheck(1, "alice", "h1", d, iv) /\ Answers({"Conflict"})
  \/ BookWrite(1)
  \/ BookSync(1)

DurationSpec == Init /\ [][DurationNext]_vars


\* The hall owner publishes slots and one customer books, for intervals of
\* three hours, of twenty minutes and over midnight, one request at a time.
PricingNext ==
  \/ \E d \in Dates, iv \in PricedIntervals :
       NoneInFlight /\ PublishSlot("owner", "h1", d, iv)
  \/ \E d \in Dates, iv \in PricedIntervals :
       NoneInFlight /\ BookCheck(1, "alice", "h1", d, iv) /\ Answers({"Conflict"})
  \/ BookWrite(1)
  \/ BookSync(1)

PricingSpec == Init /\ [][PricingNext]_vars


\* The hall owner publishes, customers book and allotments are created, one
\* request at a time; the write of the slot may throw in both creations.
FailureNext ==
  \/ \E d \in Dates, iv \in Intervals :
       NoneInFlight /\ PublishSlot("owner", "h1", d, iv)
  \/ \E d \in Dates, iv \in Intervals :
       NoneInFlight /\ BookCheck(1, "alice", "h1", d, iv) /\ Answers({"Conflict"})
  \/ BookWrite(1)
  \/ BookSync(1)
  \/ BookSyncFails(1)
  \/ \E d \in Dates, iv \in Intervals, t \in AllotmentAmounts :
       NoneInFlight /\ AllotCheck(1, "alice", "h1", d, iv, NULL, t) /\ Answers({})
  \/ AllotWrite(1)
  \/ AllotWriteFails(1)

FailureSpec == Init /\ [][FailureNext]_vars


\* Customers book, bookings are completed through the status update, and the
\* revenue records are updated and deleted; one request at a time.
RevenueNext ==
  \/ \E a \in Customers, d \in Dates, iv \in Intervals :
       NoneInFlight /\ BookCheck(1, a, "h1", d, iv) /\ Answers({"Conflict"})
  \/ BookWrite(1)
  \/ BookSync(1)
  \/ \E a \in {"owner", "admin"}, b \in 1..MaxBookings :
       NoneInFlight /\ StatusSet(1, a, b, "completed") /\ Answers({})
  \/ StatusRevCheck(1)
  \/ \E f \in BOOLEAN : StatusRevWrite(1, f)
  \/ \E a \in {"owner", "admin"}, v \in 1..MaxRevenues, u \in RevenueUpdates,
        sameId \in BOOLEAN :
       NoneInFlight /\ UpdateRevenue(a, v, u, sameId) /\ Answers({"Forbidden", "ServerError"})
  \/ \E a \in {"owner", "admin"}, v \in 1..MaxRevenues :
       NoneInFlight /\ DeleteRevenue(a, v) /\ Answers({"Forbidden"})

RevenueSpec == Init /\ [][RevenueNext]_vars


\* The hall owner publishes, one customer books, pays and asks for refunds.
\* A booking is created while no other request is served; verifications and
\* refunds are served concurrently, up to MaxInflight at a time.
PaymentNext ==
  \/ \E d \in Dates, iv \in Intervals :
       NoneInFlight /\ PublishSlot("owner", "h1", d, iv)
  \/ \E d \in Dates, iv \in Intervals :
       NoneInFlight /\ BookCheck(1, "alice", "h1", d, iv) /\ Answers({"Conflict"})
  \/ BookWrite(1)
  \/ BookSync(1)
  \/ \E r \in 1..MaxInflight, b \in 1..MaxBookings :
       VerifyCheck(r, "alice", b) /\ Answers({})
  \/ \E r \in 1..MaxInflight : VerifyWrite(r)
  \/ \E r \in 1..MaxInflight, b \in 1..MaxBookings, h \in HoursBefore :
       RefundCheck(r, "alice", b, h) /\ Answers({"BadRequest"})
  \/ \E r \in 1..MaxInflight : RefundWrite(r)

PaymentSpec == Init /\ [][PaymentNext]_vars

\* ------------------------------------------------------------------ claims
\* Slots a and b are of the same hall and date and their [startTime, endTime)
\* intervals overlap.
Overlapping(a, b) ==
  /\ a.hall = b.hall
  /\ a.allotmentDate = b.allotmentDate
  /\ StrLT(a.startTime, b.endTime)
  /\ StrLT(b.startTime, a.endTime)

\* C1: in every reachable state, for each hall and date, no two SlotRecords
\* with overlapping [startTime, endTime) are both confirmed or completed.
C1_NoDoubleConfirmation ==
  \A s1 \in SlotIds, s2 \in SlotIds :
    (s1 # s2 /\ Overlapping(slots[s1], slots[s2]))
      => ~(slots[s1].status \in {"confirmed", "completed"}
           /\ slots[s2].status \in {"confirmed", "completed"})

\* Bookings that hold a reservation.
ActiveBookings == {b \in BookingIds : bookings[b].status \in {"pending", "confirmed"}}

\* C2: a createBooking request that passed its conflict check writes its
\* booking without looking again: when a conflicting booking has been written
\* between its check and its write, the write still adds an active booking
\* for the interval and leaves every existing booking in place.
C2_WriteAfterStaleCheck ==
  [][\A r \in 1..MaxInflight :
       (/\ At(r, "book", "write")
        /\ inflight'[r] # inflight[r]
        /\ ConflictingBookings(inflight[r].hall, inflight[r].date,
                               inflight[r].startTime, inflight[r].endTime) # {})
       => /\ DOMAIN bookings' = BookingIds \cup {nextBooking}
          /\ nextBooking \notin BookingIds
          /\ bookings'[nextBooking].status \in {"pending", "confirmed"}
          /\ bookings'[nextBooking].hall = inflight[r].hall
          /\ bookings'[nextBooking].bookingDate = inflight[r].date
          /\ bookings'[nextBooking].startTime = inflight[r].startTime
          /\ bookings'[nextBooking].endTime = inflight[r].endTime
          /\ \A b \in BookingIds : bookings'[b] = bookings[b]]_vars

\* C2 (case reached): two active bookings made by customers for the same
\* hall, date and interval.
C2_DoubleBooking ==
  \E b1 \in ActiveBookings, b2 \in ActiveBookings :
    /\ b1 # b2
    /\ bookings[b1].user \in Customers /\ bookings[b2].user \in Customers
    /\ bookings[b1].hall = bookings[b2].hall
    /\ bookings[b1].bookingDate = bookings[b2].bookingDate
    /\ bookings[b1].startTime = bookings[b2].startTime
    /\ bookings[b1].endTime = bookings[b2].endTime

\* C3: createBooking fails with Conflict if and only if a SlotRecord of the
\* same hall and date that is confirmed or completed overlaps the requested
\* interval, and on Conflict no record is created or changed.
C3_ConflictIffSlotOverlap ==
  [][\A a \in Customers, d \in Dates, iv \in Intervals :
       BookCheck(1, a, "h1", d, iv)
         => /\ (last'.result = "Conflict")
                 <=> (ConflictingAllotments("h1", d, iv[1], iv[2]) # {})
            /\ (last'.result = "Conflict")
                 => UNCHANGED <<slots, bookings, revenues>>]_vars

\* C4: after every successful createBooking the BookingRecord exists and
\* exactly one SlotRecord, confirmed and of the same customer, refers to it.
C4_OneSlotOneBooking ==
  (last.op = "createBooking" /\ last.result = "ok")
    => /\ last.id \in BookingIds
       /\ Cardinality(SlotsOfBooking(last.id)) = 1
       /\ \A s \in SlotsOfBooking(last.id) :
            /\ slots[s].status = "confirmed"
            /\ slots[s].user = bookings[last.id].user

\* C5: when the sync step of createBooking finds an open availability slot
\* of the identical hall, date, startTime and endTime, no SlotRecord is added
\* or removed, one of the slots found gets the customer, the booking, the
\* amounts, paymentStatus pending, status confirmed and isAvailabilitySlot
\* false, and every other SlotRecord is left as it was.
C5_ConvertedInPlace ==
  [][\A r \in 1..MaxInflight :
       (/\ At(r, "book", "sync")
        /\ inflight'[r] = Idle
        /\ MatchingSlots(inflight[r].hall, inflight[r].date,
                         inflight[r].startTime, inflight[r].endTime) # {})
       => LET q == inflight[r]
              found == MatchingSlots(q.hall, q.date, q.startTime, q.endTime)
          IN /\ DOMAIN slots' = SlotIds
             /\ q.booking \in BookingIds
             /\ \E s \in found :
                  /\ slots'[s].id = s
                  /\ slots'[s].hall = q.hall
                  /\ slots'[s].allotmentDate = q.date
                  /\ slots'[s].startTime = q.startTime
                  /\ slots'[s].endTime = q.endTime
                  /\ slots'[s].user = q.user
                  /\ slots'[s].booking = q.booking
                  /\ slots'[s].totalAmount = bookings[q.booking].totalAmount
                  /\ slots'[s].totalAmount > 0
                  /\ slots'[s].platformFee = (slots'[s].totalAmount * 5) \div 100
                  /\ slots'[s].hallOwnerCommission = (slots'[s].totalAmount * 90) \div 100
                  /\ slots'[s].paymentStatus = "pending"
                  /\ slots'[s].status = "confirmed"
                  /\ slots'[s].isAvailabilitySlot = FALSE
                  /\ \A o \in SlotIds \ {s} : slots'[o] = slots[o]]_vars

\* C5 (case reached): a booking has just converted a published slot while
\* another published slot is still open.
C5_Converted ==
  /\ last.op = "createBooking" /\ last.result = "ok"
  /\ \E s \in SlotIds :
       /\ slots[s].booking = last.id
       /\ slots[s].status = "confirmed"
       /\ \E o \in SlotIds \ {s} : slots[o].status = "available"

\* Slots that a customer's booking has converted: only createBooking makes
\* bookings of customers, and only its sync step makes a slot refer to one.
ConvertedSlots ==
  {s \in SlotIds : /\ slots[s].isAvailabilitySlot = FALSE
                   /\ slots[s].booking \in BookingIds
                   /\ bookings[slots[s].booking].user \in Customers}

\* The slot is back in the state of a published availability slot.
GivenBack(slot) ==
  /\ slot.status = "available"
  /\ slot.isAvailabilitySlot = TRUE
  /\ slot.user = NoUser
  /\ slot.booking = NULL
  /\ slot.totalAmount = 0

\* C6 (as stated): a successful cancellation, on the booking route or on the
\* allotment cancel route, of a booking that had converted a published
\* availability slot gives the slot back.
C6_CancelGivesSlotBack ==
  [][\A s \in ConvertedSlots :
       (/\ bookings[slots[s].booking].status # "cancelled"
        /\ \/ last' = Resp("cancelBooking", "ok", slots[s].booking)
           \/ last' = Resp("cancelAllotment", "ok", s))
       => (s \in DOMAIN slots' /\ GivenBack(slots'[s]))]_vars

\* C6 (amended): a successful cancellation on the booking route (DELETE of a
\* booking that is not yet cancelled) of a booking that had converted a
\* published availability slot cancels the booking and gives the slot back:
\* available, isAvailabilitySlot true, no customer, no booking, amounts zero;
\* a slot that was not checked in is again the document that was published.
C6_BookingCancelGivesSlotBack ==
  [][\A s \in ConvertedSlots :
       (/\ bookings[slots[s].booking].status # "cancelled"
        /\ last' = Resp("cancelBooking", "ok", slots[s].booking))
       => /\ s \in DOMAIN slots'
          /\ GivenBack(slots'[s])
          /\ slots'[s].platformFee = 0
          /\ slots'[s].hallOwnerCommission = 0
          /\ slots'[s].paymentStatus = "not_applicable"
          /\ slots[s].actualCheckIn = FALSE
               => slots'[s] = AvailabilitySlot(s, slots[s].hall, slots[s].allotmentDate,
                                               slots[s].startTime, slots[s].endTime)
          /\ bookings'[slots[s].booking].status = "cancelled"
          /\ \A o \in SlotIds \ {s} : slots'[o] = slots[o]]_vars

\* C6 (case reached): the one booking ever made, a customer's, has just been
\* cancelled on the booking route, and the one slot ever published, of the
\* booking's interval, is the published document again.
C6_SlotGivenBack ==
  /\ nextSlot = 2 /\ nextBooking = 2
  /\ last = Resp("cancelBooking", "ok", 1)
  /\ 1 \in BookingIds /\ 1 \in SlotIds
  /\ bookings[1].user \in Customers
  /\ bookings[1].status = "cancelled"
  /\ slots[1] = AvailabilitySlot(1, bookings[1].hall, bookings[1].bookingDate,
                                 bookings[1].startTime, bookings[1].endTime)

\* C7: on every cancellation path a cancellation by the customer (not an
\* admin) less than 24 hours before the start fails with PolicyViolation and
\* changes neither the SlotRecord nor the BookingRecord; an admin's
\* cancellation never fails with PolicyViolation.
C7_TwentyFourHourFloor ==
  [][/\ \A a \in Users, s \in SlotIds, h \in HoursUntilStart :
          (last'.op = "cancelAllotment" /\ slots[s].user # NoUser
             /\ CancelAllotment(a, s, h))
            => /\ (h < 24 /\ slots[s].user = a /\ Role(a) # "admin")
                    => /\ last'.result = "PolicyViolation"
                       /\ UNCHANGED <<slots, bookings>>
               /\ Role(a) = "admin" => last'.result # "PolicyViolation"
     /\ \A a \in Users, b \in BookingIds, h \in HoursUntilStart :
          (last'.op = "cancelBooking" /\ bookings[b].status # "cancelled"
             /\ DeleteBookingRoute(a, b, h))
            => /\ (h < 24 /\ bookings[b].user = a /\ Role(a) # "admin")
                    => /\ last'.result = "PolicyViolation"
                       /\ UNCHANGED <<slots, bookings>>
               /\ Role(a) = "admin" => last'.result # "PolicyViolation"]_vars

\* refundAmount of the bands: 80 % above 48 hours, 50 % from 24 to 48 hours,
\* nothing below 24 hours.
BandedRefund(totalAmount, h) ==
  IF h > 48 THEN (totalAmount * 80) \div 100
  ELSE IF h >= 24 /\ h <= 48 THEN (totalAmount * 50) \div 100
  ELSE 0

\* C8 (as stated): every successful cancellation, on the allotment cancel
\* route or on the booking route, sets cancelled on both the SlotRecord and
\* the BookingRecord and records the banded refundAmount on the SlotRecord.
C8_CancellationRecorded ==
  [][\A s \in SlotIds, h \in HoursUntilStart :
       (/\ slots[s].booking \in BookingIds
        /\ last'.result = "ok"
        /\ \/ /\ last'.op = "cancelAllotment"
              /\ \E a \in Users : CancelAllotment(a, s, h)
           \/ /\ last'.op = "cancelBooking"
              /\ \E a \in Users : DeleteBookingRoute(a, slots[s].booking, h))
       => /\ s \in DOMAIN slots'
          /\ slots'[s].status = "cancelled"
          /\ bookings'[slots[s].booking].status = "cancelled"
          /\ slots'[s].refundAmount = BandedRefund(slots[s].totalAmount, h)]_vars

\* C8 (amended): a successful cancellation on the allotment cancel route sets
\* cancelled on the SlotRecord and on its BookingRecord, sets cancellationDate
\* and records refundAmount = totalAmount x 0.80 when the cancellation is more
\* than 48 hours before the start, x 0.50 from 24 to 48 hours, and 0 below 24
\* hours, which only an admin reaches; every other SlotRecord and
\* BookingRecord is left as it was.
C8_AllotmentCancelRecorded ==
  [][\A s \in SlotIds :
       (last' = Resp("cancelAllotment", "ok", s))
       => /\ DOMAIN slots' = SlotIds
          /\ slots'[s].status = "cancelled"
          /\ Len(slots'[s].cancellationDate) = 1
          /\ slots'[s].cancellationDate[1] \in HoursUntilStart
          /\ slots'[s].refundAmount =
               BandedRefund(slots[s].totalAmount, slots'[s].cancellationDate[1])
          /\ slots[s].booking \in BookingIds
          /\ bookings'[slots[s].booking].status = "cancelled"
          /\ slots'[s].cancellationDate[1] < 24
               => \A a \in Users :
                    CancelAllotment(a, s, slots'[s].cancellationDate[1])
                      => Role(a) = "admin"
          /\ \A o \in SlotIds \ {s} : slots'[o] = slots[o]
          /\ \A b \in BookingIds \ {slots[s].booking} : bookings'[b] = bookings[b]]_vars

\* C8 (case reached): an allotment has just been cancelled with half of a
\* positive totalAmount recorded as refund, its booking cancelled with it.
C8_HalfRefunded ==
  /\ last.op = "cancelAllotment" /\ last.result = "ok"
  /\ last.id \in SlotIds
  /\ slots[last.id].status = "cancelled"
  /\ slots[last.id].totalAmount > 0
  /\ 2 * slots[last.id].refundAmount = slots[last.id].totalAmount
  /\ slots[last.id].booking \in BookingIds
  /\ bookings[slots[last.id].booking].status = "cancelled"

\* C9: in every reachable state there is at most one RevenueRecord per
\* booking, whatever sequence or interleaving of status updates to completed,
\* complete-booking requests and direct revenue creations is served.
C9_OneRevenuePerBooking ==
  \A b \in 1..MaxBookings : Cardinality(RevenuesOfBooking(b)) <= 1

\* C10: on every completion path, when the write of the RevenueRecord fails
\* the booking is completed all the same and the request answers without an
\* error.
C10_RevenueFailureDoesNotBlock ==
  [][\A r \in 1..MaxInflight :
       (StatusRevWrite(r, TRUE) \/ CompleteWrite(r, TRUE))
       => /\ inflight[r].booking \in DOMAIN bookings'
          /\ bookings'[inflight[r].booking].status = "completed"
          /\ last'.result = "ok"]_vars

\* Bookings that are completed: the BookingRecord is completed, or a
\* SlotRecord that refers to it is.
CompletedBookings ==
  {b \in BookingIds :
     \/ bookings[b].status = "completed"
     \/ \E s \in SlotsOfBooking(b) : slots[s].status = "completed"}

\* C11: whenever no request is in flight, every completed booking (booking
\* or slot status completed) has exactly one RevenueRecord, whichever
\* operation completed it: check-in, status update or complete-booking.
C11_CompletedHasOneRevenue ==
  NoneInFlight
    => \A b \in CompletedBookings : Cardinality(RevenuesOfBooking(b)) = 1

\* C12: checkIn succeeds only on a SlotRecord in state confirmed, and then
\* sets actualCheckIn and moves it to completed, changing nothing else; from
\* every other state (available, cancelled, completed, no_show) it fails and
\* changes nothing, so that a check-in of a slot that has just been checked
\* in fails.
C12_CheckInOnlyFromConfirmed ==
  [][\A s \in SlotIds :
       (last'.op = "checkIn" /\ CheckIn(s))
       => /\ slots[s].status = "confirmed"
               => /\ last' = Resp("checkIn", "ok", s)
                  /\ DOMAIN slots' = SlotIds
                  /\ slots'[s].status = "completed"
                  /\ slots'[s].actualCheckIn = TRUE
                  /\ \A f \in DOMAIN slots[s] \ {"status", "actualCheckIn"} :
                       slots'[s][f] = slots[s][f]
                  /\ \A o \in SlotIds \ {s} : slots'[o] = slots[o]
          /\ slots[s].status # "confirmed"
               => /\ last'.result = "PolicyViolation"
                  /\ slots' = slots
          /\ bookings' = bookings /\ revenues' = revenues]_vars

\* C12 (case reached): a check-in has just been refused on a slot that is
\* completed and was checked in, while another slot is no_show.
C12_SecondCheckInRefused ==
  /\ last = Resp("checkIn", "PolicyViolation", NULL)
  /\ \E s \in SlotIds :
       /\ slots[s].status = "completed" /\ slots[s].actualCheckIn
       /\ \E o \in SlotIds \ {s} : slots[o].status = "no_show"

\* C13: feedback is stored only on a completed SlotRecord and only for the
\* owning customer, so that in every reachable state a SlotRecord that
\* carries feedback is completed.
C13_FeedbackOnlyOnCompleted ==
  \A s \in SlotIds : slots[s].feedback # << >> => slots[s].status = "completed"

C15_DeleteKeepsActiveBookingsShadowed ==
  [][\A a \in Users, s \in SlotIds, f \in BOOLEAN :
       (/\ last'.op = "deleteAllotment"
        /\ ~slots[s].isAvailabilitySlot
        /\ DeleteAllotment(a, s, f))
       => /\ last'.result = "ok"
               => /\ s \notin DOMAIN slots'
                  /\ \/ slots[s].status = "cancelled"
                     \/ /\ a = HallOwner(slots[s].hall)
                        /\ slots[s].booking \in BookingIds
                             => bookings'[slots[s].booking].status = "cancelled"
          /\ last'.result # "ok" => (slots' = slots /\ bookings' = bookings)
          /\ \A b \in DOMAIN bookings' :
               (bookings'[b].status \in {"pending", "confirmed"} /\ SlotsOfBooking(b) # {})
                 => \E o \in DOMAIN slots' : slots'[o].booking = b]_vars

\* C16: on both cancellation routes a cancellation of a booking, asked for 30
\* hours before the start, is accepted from the customer who owns the
\* booking, from the owner of the hall and from an admin, and from every
\* other actor it fails with Forbidden and changes neither the SlotRecord
\* nor the BookingRecord.
C16_CancellationActors ==
  [][/\ \A a \in Users, s \in SlotIds :
          (/\ last'.op = "cancelAllotment"
           /\ slots[s].booking \in BookingIds
           /\ CancelAllotment(a, s, 30))
          => IF a = slots[s].user \/ a = HallOwner(slots[s].hall) \/ Role(a) = "admin"
               THEN last'.result = "ok"
               ELSE last'.result = "Forbidden" /\ slots' = slots /\ bookings' = bookings
     /\ \A a \in Users, b \in BookingIds :
          (/\ last'.op \in {"cancelBooking", "deleteBooking"}
           /\ DeleteBookingRoute(a, b, 30))
          => IF a = bookings[b].user \/ a = HallOwner(bookings[b].hall) \/ Role(a) = "admin"
               THEN last'.result = "ok"
               ELSE last'.result = "Forbidden" /\ slots' = slots /\ bookings' = bookings]_vars

\* C17: in every reachable state, for every SlotRecord, isAvailabilitySlot is
\* true if and only if its status is available.
C17_FlagAgreesWithStatus ==
  \A s \in SlotIds : slots[s].isAvailabilitySlot <=> (slots[s].status = "available")

\* C18: in every reachable state an open (available) SlotRecord has no
\* customer and no booking, zero totalAmount, platformFee and
\* hallOwnerCommission and paymentStatus not_applicable; a SlotRecord with
\* paymentStatus not_applicable is open; and a SlotRecord that is not open
\* has both a customer and a booking.
C18_OpenSlotCarriesNothing ==
  \A s \in SlotIds :
    /\ slots[s].status = "available"
         => /\ slots[s].user = NoUser
            /\ slots[s].booking = NULL
            /\ slots[s].totalAmount = 0
            /\ slots[s].platformFee = 0
            /\ slots[s].hallOwnerCommission = 0
            /\ slots[s].paymentStatus = "not_applicable"
    /\ slots[s].paymentStatus = "not_applicable" => slots[s].status = "available"
    /\ slots[s].status # "available"
         => (slots[s].user # NoUser /\ slots[s].booking # NULL)

\* The slot is open: available, an availability slot, without customer and
\* booking, with zero monetary fields and paymentStatus not_applicable.
OpenSlot(slot) ==
  /\ slot.status = "available"
  /\ slot.isAvailabilitySlot = TRUE
  /\ slot.user = NoUser /\ slot.booking = NULL
  /\ slot.totalAmount = 0 /\ slot.platformFee = 0 /\ slot.hallOwnerCommission = 0
  /\ slot.paymentStatus = "not_applicable"

\* C19: createSlot answers NotFound and inserts nothing when the hall id does
\* not resolve; otherwise every SlotRecord it inserts (single or recurring)
\* is open and of the hall, every existing SlotRecord, BookingRecord and
\* RevenueRecord is left as it was, and the request is never refused because
\* of an overlap: whatever slots and bookings exist, a single-slot
\* publication for an existing hall can be served and inserts its slot.
C19_CreateSlotFrame ==
  /\ [][(last'.op = "createSlot")
         => /\ last'.result \in {"ok", "step", "NotFound"}
            /\ last'.result = "NotFound" => (slots' = slots /\ inflight' = inflight)
            /\ \A s \in SlotIds : s \in DOMAIN slots' /\ slots'[s] = slots[s]
            /\ bookings' = bookings /\ revenues' = revenues
            /\ \A s \in (DOMAIN slots') \ SlotIds :
                 slots'[s].hall \in Halls /\ OpenSlot(slots'[s])
            /\ \A h \in HallIds, d \in Dates, iv \in Intervals :
                 PublishSlot("owner", h, d, iv)
                   => /\ (last'.result = "NotFound") <=> (h \notin Halls)
                      /\ h \in Halls
                           => /\ DOMAIN slots' = SlotIds \cup {nextSlot}
                              /\ slots'[nextSlot].hall = h
                              /\ slots'[nextSlot].allotmentDate = d
                              /\ slots'[nextSlot].startTime = iv[1]
                              /\ slots'[nextSlot].endTime = iv[2]]_vars
  /\ [](\A d \in Dates, iv \in Intervals :
          (NoneInFlight /\ nextSlot <= MaxSlots)
            => ENABLED (PublishSlot("owner", "h1", d, iv) /\ last'.result = "ok"))

\* C19 (case reached): a slot has just been published over the interval of
\* a confirmed slot of the same hall and date that a booking holds.
C19_PublishedOverBooking ==
  /\ last.op = "createSlot" /\ last.result = "ok"
  /\ last.id \in SlotIds
  /\ OpenSlot(slots[last.id])
  /\ \E s \in SlotIds \ {last.id} :
       /\ slots[s].status = "confirmed"
       /\ slots[s].booking \in ActiveBookings
       /\ Overlapping(slots[s], slots[last.id])

\* The calendar days from date to endDate whose weekday is named.
NamedDays(date, endDate, recurringDays) ==
  {day \in date..endDate : Weekday(day) \in recurringDays}

\* The recurring publication in flight has saved exactly one slot for each
\* of the given days, of its hall and interval, and no other slot.
SavedOnePerDay(q, days) ==
  /\ Len(q.slots) = Cardinality(days)
  /\ \A i \in 1..Len(q.slots) :
       /\ q.slots[i] \in SlotIds
       /\ slots[q.slots[i]].allotmentDate \in days
       /\ slots[q.slots[i]].hall = q.hall
       /\ slots[q.slots[i]].startTime = q.startTime
       /\ slots[q.slots[i]].endTime = q.endTime
       /\ \A j \in 1..Len(q.slots) :
            slots[q.slots[i]].allotmentDate = slots[q.slots[j]].allotmentDate => i = j

\* C20 (as stated): a recurring publication with start date d, end date e
\* and weekdays W inserts exactly one SlotRecord for each day of [d, e] whose
\* weekday is in W and none for any other day, for every W; it inserts
\* nothing when e is before d; and it terminates.
C20_OnePerNamedDay ==
  /\ [][/\ (inflight[1] # Idle /\ inflight[1].kind = "publish" /\ inflight'[1] = Idle)
           => /\ SavedOnePerDay(inflight[1],
                                NamedDays(inflight[1].allotmentDate, inflight[1].endDate,
                                          inflight[1].recurringDays))
              /\ DOMAIN slots' = SlotIds
              /\ inflight[1].endDate < inflight[1].allotmentDate
                   => inflight[1].slots = << >>
        /\ \A d \in RecurrenceStarts, iv \in Intervals, e \in RecurrenceEnds :
             PublishRecurringStart(1, "owner", "h1", d, iv, e, {}) => slots' = slots
        /\ (inflight'[1] # Idle /\ inflight'[1].kind = "publish")
             => DOMAIN slots' \ SlotIds \subseteq
                  {inflight'[1].slots[i] : i \in 1..Len(inflight'[1].slots)}]_vars
  /\ (inflight[1] # Idle) ~> (inflight[1] = Idle)

\* C20 (amended): a recurring publication with start date d, end date e and
\* a non-empty set of weekdays W inserts exactly one SlotRecord for each day
\* of [d, e] whose weekday is in W and none for any other day, and nothing
\* when e is before d; with an empty W it is served as a single publication
\* and inserts one slot, not recurring, on d whatever e is; and the
\* iteration terminates for every d and e.
C20_OnePerNamedDayOfNonEmptySet ==
  /\ [][/\ (inflight[1] # Idle /\ inflight[1].kind = "publish" /\ inflight'[1] = Idle)
           => /\ inflight[1].recurringDays # {}
              /\ SavedOnePerDay(inflight[1],
                                NamedDays(inflight[1].allotmentDate, inflight[1].endDate,
                                          inflight[1].recurringDays))
              /\ DOMAIN slots' = SlotIds
              /\ inflight[1].endDate < inflight[1].allotmentDate
                   => inflight[1].slots = << >>
        /\ \A d \in RecurrenceStarts, iv \in Intervals, e \in RecurrenceEnds :
             PublishRecurringStart(1, "owner", "h1", d, iv, e, {})
               => /\ DOMAIN slots' = SlotIds \cup {nextSlot}
                  /\ nextSlot \notin SlotIds
                  /\ slots'[nextSlot].allotmentDate = d
                  /\ slots'[nextSlot].isRecurring = FALSE
                  /\ inflight' = inflight
        /\ (inflight'[1] # Idle /\ inflight'[1].kind = "publish")
             => DOMAIN slots' \ SlotIds \subseteq
                  {inflight'[1].slots[i] : i \in 1..Len(inflight'[1].slots)}]_vars
  /\ (inflight[1] # Idle) ~> (inflight[1] = Idle)

\* C20 (case reached): a recurring publication from day 1 has just ended
\* after saving a slot on day 1 and a slot on day 8, both of weekday 1, and
\* none on the days between.
C20_TwoWeeks ==
  /\ last = Resp("createSlot", "ok", 1)
  /\ inflight[1] = Idle
  /\ SlotIds = {1, 2}
  /\ slots[1].allotmentDate = 1 /\ slots[2].allotmentDate = 8
  /\ slots[1].isRecurring /\ slots[2].isRecurring

\* Minutes from startTime to an endTime that is at or before it, taken to be
\* on the next day.
OvernightMinutes(startTime, endTime) ==
  ParseMinutes(endTime) + 1440 - ParseMinutes(startTime)

\* C21: for every startTime and endTime with endTime <= startTime the
\* duration computed is (endMinutes + 1440 - startMinutes) / 60 hours, and
\* the duration computed when a slot is published and the one computed for
\* a booking's amount are the same for every pair: every stored slot
\* duration and every stored booking totalHours is the value the other
\* computation gives for its interval.
C21_OneDurationRule ==
  /\ \A s \in SlotIds :
       /\ slots[s].duration = TotalHours(slots[s].startTime, slots[s].endTime)
       /\ ParseMinutes(slots[s].endTime) <= ParseMinutes(slots[s].startTime)
            => slots[s].duration = OvernightMinutes(slots[s].startTime, slots[s].endTime)
  /\ \A b \in BookingIds :
       /\ bookings[b].totalHours
            = calculateDuration(bookings[b].startTime, bookings[b].endTime)
       /\ ParseMinutes(bookings[b].endTime) <= ParseMinutes(bookings[b].startTime)
            => bookings[b].totalHours
                 = OvernightMinutes(bookings[b].startTime, bookings[b].endTime)

\* C22: after every successful createBooking the booking's totalAmount is
\* totalHours x pricePerHour rounded to the nearest whole unit (halves up),
\* and the SlotRecord of the reservation stores that totalAmount, 5 % of it
\* as platformFee and 90 % of it as hallOwnerCommission.  (totalHours is in
\* minutes and money in hundredths.)
C22_AmountsOfBooking ==
  (last.op = "createBooking" /\ last.result = "ok")
    => /\ last.id \in BookingIds
       /\ LET b == bookings[last.id]
              units == b.totalAmount \div 100
          IN /\ b.totalAmount = 100 * units
             /\ 2 * (60 * units - b.totalHours * pricePerHour) <= 60
             /\ 2 * (b.totalHours * pricePerHour - 60 * units) < 60
             /\ \A s \in SlotsOfBooking(last.id) :
                  /\ slots[s].totalAmount = b.totalAmount
                  /\ 100 * slots[s].platformFee = 5 * b.totalAmount
                  /\ 100 * slots[s].hallOwnerCommission = 90 * b.totalAmount

\* C22 (case reached): at 500 an hour a booking from 10:00 to 13:00 has just
\* been made: 3 hours, 1500, and on its slot 75 and 1350; an earlier booking
\* of twenty minutes was rounded up to 167.
C22_ThreeHoursAtFiveHundred ==
  /\ last.op = "createBooking" /\ last.result = "ok"
  /\ last.id \in BookingIds
  /\ bookings[last.id].startTime = T10 /\ bookings[last.id].endTime = T13
  /\ bookings[last.id].totalHours = 3 * 60
  /\ bookings[last.id].totalAmount = 1500 * 100
  /\ \E s \in SlotsOfBooking(last.id) :
       /\ slots[s].totalAmount = 1500 * 100
       /\ slots[s].platformFee = 75 * 100
       /\ slots[s].hallOwnerCommission = 1350 * 100
  /\ \E o \in BookingIds : bookings[o].endTime = T1320 /\ bookings[o].totalAmount = 167 * 100

\* C23: for every booking, the platformFee and the hallOwnerCommission stored
\* on its SlotRecord when the booking was created equal those stored in its
\* RevenueRecord, whichever completion path created that record.
C23_OneSplit ==
  \A v \in RevenueIds : \A s \in SlotsOfBooking(revenues[v].booking) :
    /\ revenues[v].platformFee = slots[s].platformFee
    /\ revenues[v].hallOwnerCommission = slots[s].hallOwnerCommission

\* C24: for every hall the available-slots query returns exactly the
\* SlotRecords that are available with isAvailabilitySlot true, the
\* booked-slots query returns exactly the other SlotRecords of the hall, so
\* that every SlotRecord of the hall, in any state, is returned by exactly
\* one of the two, and both return their records in ascending order of
\* (date, startTime).
C24_QueriesPartitionTheHall ==
  \A h \in Halls :
    /\ AvailabilityQuery(h)
         = {s \in SlotIds : /\ slots[s].hall = h
                            /\ slots[s].status = "available"
                            /\ slots[s].isAvailabilitySlot}
    /\ BookedQuery(h) = {s \in SlotIds : slots[s].hall = h} \ AvailabilityQuery(h)
    /\ SortedByDateAndStart(AvailabilityQuery(h)) # {}
    /\ SortedByDateAndStart(BookedQuery(h)) # {}

\* C25: a createBooking or an allotment creation that answers with an error
\* leaves no BookingRecord and no SlotRecord of the request behind, also when
\* the write of the SlotRecord fails after the write of the BookingRecord.
C25_ErrorLeavesNothing ==
  [][\A r \in 1..MaxInflight :
       (/\ inflight[r] # Idle
        /\ inflight[r].kind \in {"book", "allot"}
        /\ inflight'[r] = Idle
        /\ last'.result = "ServerError")
       => /\ DOMAIN slots' = SlotIds
          /\ inflight[r].kind = "book" => inflight[r].booking \notin DOMAIN bookings'
          /\ inflight[r].kind = "allot" => DOMAIN bookings' = BookingIds]_vars

\* C26: once a RevenueRecord is created no operation removes it and no
\* operation changes any of its fields, except its status from completed to
\* refunded.
C26_RevenueRecordFrozen ==
  [][\A v \in RevenueIds :
       /\ v \in DOMAIN revenues'
       /\ \/ revenues'[v] = revenues[v]
          \/ /\ revenues[v].status = "completed"
             /\ revenues'[v] = [revenues[v] EXCEPT !.status = "refunded"]]_vars

\* C27: whenever no request is being served, each pending or confirmed
\* BookingRecord is shadowed by exactly one SlotRecord, and a booking and a
\* slot that shadows it agree: the booking is confirmed iff the slot is
\* confirmed, completed iff the slot is completed, and cancelled iff the slot
\* is cancelled (a released slot no longer refers to the booking).
C27_ShadowSlotAgrees ==
  NoneInFlight =>
    \A b \in BookingIds :
      /\ bookings[b].status \in {"pending", "confirmed"}
           => Cardinality(SlotsOfBooking(b)) = 1
      /\ \A s \in SlotsOfBooking(b) :
           /\ bookings[b].status = "confirmed" <=> slots[s].status = "confirmed"
           /\ bookings[b].status = "completed" <=> slots[s].status = "completed"
           /\ bookings[b].status = "cancelled" <=> slots[s].status = "cancelled"

\* C28: cancelled and completed are terminal: no step takes a BookingRecord
\* or a SlotRecord that is cancelled or completed back to pending or
\* confirmed.
C28_TerminalStates ==
  [][/\ \A b \in BookingIds \cap DOMAIN bookings' :
          bookings[b].status \in {"cancelled", "completed"}
            => bookings'[b].status \notin {"pending", "confirmed"}
     /\ \A s \in SlotIds \cap DOMAIN slots' :
          slots[s].status \in {"cancelled", "completed"}
            => slots'[s].status \notin {"pending", "confirmed"}]_vars

\* C30: a refund that succeeds finds the booking paid and leaves it refunded
\* and cancelled, so each successful refund uses up one verified payment; a
\* refund that is refused changes no booking.
C30_OneRefundPerPayment ==
  [][/\ \A r \in 1..MaxInflight :
          (At(r, "refund", "write") /\ inflight'[r] = Idle)
            => /\ bookings[inflight[r].booking].paymentStatus = "paid"
               /\ bookings' = [bookings EXCEPT
                                 ![inflight[r].booking].paymentStatus = "refunded",
                                 ![inflight[r].booking].status = "cancelled"]
     /\ (last'.op = "refundPayment" /\ last'.result \notin {"ok", "step"})
          => bookings' = bookings]_vars

\* The booking that the request answered last has cancelled, on the booking
\* route or on the allotment route.
JustCancelled ==
  IF last.result = "ok" /\ last.op = "cancelBooking"
    THEN {last.id} \cap BookingIds
  ELSE IF last.result = "ok" /\ last.op = "cancelAllotment" /\ last.id \in SlotIds
    THEN {slots[last.id].booking} \cap BookingIds
    ELSE {}

\* C29: right after a cancellation on either route, if no other reservation
\* conflicts with the interval of the cancelled booking, a createBooking for
\* the same hall, date and interval passes the conflict check.
C29_CancellationFreesInterval ==
  \A b \in JustCancelled :
    LET k == bookings[b]
    IN ConflictingBookings(k.hall, k.bookingDate, k.startTime, k.endTime) \ {b} = {}
         => ENABLED (/\ BookCheck(1, "alice", k.hall, k.bookingDate,
                                  <<k.startTime, k.endTime>>)
                     /\ last'.result = "step")

\* A booking cancelled on the allotment route, and the same interval booked
\* again by the request answered last.
C29_RebookedAfterCancellation ==
  \E b \in BookingIds, c \in BookingIds, s \in SlotIds :
    /\ b # c
    /\ bookings[b].status = "cancelled"
    /\ slots[s].booking = b
    /\ slots[s].status = "cancelled"
    /\ bookings[c].status \in {"pending", "confirmed"}
    /\ bookings[c].hall = bookings[b].hall
    /\ bookings[c].bookingDate = bookings[b].bookingDate
    /\ bookings[c].startTime = bookings[b].startTime
    /\ bookings[c].endTime = bookings[b].endTime
    /\ last = Resp("createBooking", "ok", c)
====
